---------------------------- MODULE Spec2Model ----------------------------
(***************************************************************************)
(* The forwarding engine of tunnelmole-service: handleRequest and its      *)
(* forwardedResponseHandler (src/src/handlers/handle-request.ts), driven   *)
(* by the frames a peer sends over its websocket, by the deadline timer,   *)
(* by the client closing its connection and by the peer going away.        *)
(*                                                                         *)
(* One step of the model is one turn of node's event loop: a call of       *)
(* handleRequest, the delivery of one websocket message to every listener, *)
(* one timer callback, one 'close' event.  An exception thrown inside the  *)
(* handler's try block lands in its catch block (lines 173-178); the       *)
(* effects that precede the throw stay.  logResponse (debug logging) and   *)
(* the headers express adds on its own in response.send are left out.      *)
(***************************************************************************)
EXTENDS Integers, Sequences, FiniteSets, TLC

(***************************************************************************)
(* Bounds of the model.                                                    *)
(***************************************************************************)
\* Public requests handled in one behaviour (each gets a fresh requestId).
NumDispatch == 2
\* Byte chunks written to clients in one behaviour, over all responses.
MaxChunks == 2
\* Public requests handled in one behaviour in which the peer's frames are
\* kept (HeaderSpec).
HeaderDispatches == 1
\* Inspector requests handled in one behaviour.
NumInspect == 2
\* Rows inserted, and seconds the clock advances, in one behaviour of the
\* table (PruneSpec).
MaxInserts == 2
MaxSeconds == 3

(***************************************************************************)
(* Program constants.                                                      *)
(***************************************************************************)
\* handle-request.ts:14  const tenMinutesInMilliseconds = 300000;
tenMinutesInMilliseconds == 300000
\* The sentinel text of line 15.
StreamedSentinel == "[streamed response: body streamed directly to client]"
\* Buffer.from(text).toString('base64') on the texts the gateway encodes.
toBase64(text) ==
    CASE text = StreamedSentinel ->
           "W3N0cmVhbWVkIHJlc3BvbnNlOiBib2R5IHN0cmVhbWVkIGRpcmVjdGx5IHRvIGNsaWVudF0="
      [] OTHER -> "?"
\* handle-request.ts:15
STREAMED_RESPONSE_BODY_PLACEHOLDER == toBase64(StreamedSentinel)

(***************************************************************************)
(* Inputs.                                                                 *)
(***************************************************************************)
Hosts == {"a.example", "b.example"}
\* The hostnames a peer is bound to when the behaviour starts.
BoundAtStart == {"a.example"}
\* The observed remote address of the peer bound to a hostname.
ipAddress(h) == IF h = "a.example" THEN "10.0.0.1" ELSE "10.0.0.2"

\* request.headers['accept']: undefined, a text, or an array of texts.  A text
\* is the sequence of its characters.
NoAccept == [kind |-> "undefined", values |-> <<>>]
AcceptText(text) == [kind |-> "string", values |-> <<text>>]
AcceptArray(texts) == [kind |-> "array", values |-> texts]

EventStreamText == <<"t", "e", "x", "t", "/", "e", "v", "e", "n", "t", "-",
                     "s", "t", "r", "e", "a", "m">>
EventStreamUpper == <<"T", "E", "X", "T", "/", "E", "V", "E", "N", "T", "-",
                      "S", "T", "R", "E", "A", "M">>
EventStreamMixed == <<"T", "e", "x", "t", "/", "E", "v", "e", "n", "t", "-",
                      "S", "t", "r", "e", "a", "m">>
AnyText == <<"*", "/", "*">>

\* The Accept header of the public requests: missing, or text/event-stream.
AcceptHeaders == {NoAccept, AcceptText(EventStreamText)}

\* Accept headers in which 'text/event-stream' occurs, in any letter case, as
\* the whole value, inside a longer value, or in one element of an array.
StreamAccepts ==
    {AcceptText(EventStreamText),
     AcceptText(EventStreamUpper),
     AcceptText(EventStreamMixed \o <<",", " ">> \o AnyText),
     AcceptText(AnyText \o <<",">> \o EventStreamText \o <<";", "q", "=", "0">>),
     AcceptArray(<<AnyText, EventStreamMixed>>)}

\* Accept headers in which it does not occur: missing, empty, other types,
\* the text cut short or broken, and an array that holds it only in pieces.
BufferAccepts ==
    {NoAccept,
     AcceptText(<<>>),
     AcceptText(AnyText),
     AcceptText(SubSeq(EventStreamText, 1, 16)),
     AcceptText(SubSeq(EventStreamText, 1, 5) \o <<" ">> \o SubSeq(EventStreamText, 6, 17)),
     AcceptArray(<<>>),
     AcceptArray(<<AnyText>>),
     AcceptArray(<<SubSeq(EventStreamText, 1, 10), SubSeq(EventStreamText, 11, 17)>>)}

AcceptCases == StreamAccepts \cup BufferAccepts

\* The Host header of a public request; "" stands for a missing header
\* (request.headers.host is undefined).
ValidHostHeaders == {"a.example", "b.example"}
HostHeaders == ValidHostHeaders \cup {"", "A.Example:8080", "a b.example"}

\* new URL('https://' + host) throws TypeError (a space is no host character).
URLThrows(host) == host = "a b.example"

\* new URL('https://' + host).hostname: 'https://' + undefined is the text
\* 'https://undefined'; the URL parser lower-cases the host and splits off the
\* port.
URLhostname(host) ==
    CASE host = "" -> "undefined"
      [] host = "A.Example:8080" -> "a.example"
      [] OTHER -> host

\* Buffer.from(text, 'base64'): the decoded bytes, as a sequence of characters,
\* of the base64 texts a peer puts in a body field.
b64decode(t) ==
    CASE t = "" -> <<>>
      [] t = "YQ==" -> <<"a">>
      [] t = "Yg==" -> <<"b">>
      [] t = "Yw==" -> <<"c">>
      [] t = "ZA==" -> <<"d">>
      [] t = "cG9uZw==" -> <<"p", "o", "n", "g">>
      [] t = "e30=" -> <<"{", "}">>
      [] t = "dTpzMw==" -> <<"u", ":", "s", "3">>
      [] t = "dTpzOjM=" -> <<"u", ":", "s", ":", "3">>
      [] t = "OnMz" -> <<":", "s", "3">>
      [] t = "dXMz" -> <<"u", "s", "3">>
      [] t = "dTp3" -> <<"u", ":", "w">>
      [] OTHER -> <<"?">>

\* The payload of the k-th chunk written to a response.  The handler looks at
\* no byte of a payload, only at its decoded length, so the payloads are named
\* by their place in the response: any reordering, loss or repetition of the
\* chunks shows in the body.
PayloadAt(k) ==
    CASE k = 1 -> "YQ==" [] k = 2 -> "Yg==" [] k = 3 -> "Yw==" [] OTHER -> "ZA=="

\* The request ids in use: 1..NumDispatch are handed out by nanoid(), 0 is an
\* id no dispatch of this gateway owns.
DispatchIds == 1..NumDispatch


(***************************************************************************)
(* Header maps.  A JavaScript object used as a header map is the sequence  *)
(* of its <<name, value>> pairs in insertion order (the order for..in      *)
(* walks).                                                                 *)
(***************************************************************************)
\* String.prototype.toLowerCase on the header names and the authorization
\* schemes of the model.
toLowerCase(n) ==
    CASE n \in {"Content-Type", "content-type"} -> "content-type"
      [] n \in {"Bearer", "bearer", "BEARER"} -> "bearer"
      [] n \in {"Basic", "basic", "BASIC"} -> "basic"
      [] n \in {"Content-Length", "content-length", "CONTENT-LENGTH"} -> "content-length"
      [] n \in {"Transfer-Encoding", "transfer-encoding"} -> "transfer-encoding"
      [] n \in {"X-Forwarded-For", "x-forwarded-for", "X-FORWARDED-FOR"} -> "x-forwarded-for"
      [] OTHER -> n

\* capitalize.words(name): lower-cases, then upper-cases each letter that
\* follows a non-letter.
capitalize(n) ==
    CASE toLowerCase(n) = "content-type" -> "Content-Type"
      [] toLowerCase(n) = "content-length" -> "Content-Length"
      [] toLowerCase(n) = "transfer-encoding" -> "Transfer-Encoding"
      [] toLowerCase(n) = "x-forwarded-for" -> "X-Forwarded-For"
      [] OTHER -> n

\* Number.prototype.toString on the body lengths of the model.
toString(n) ==
    CASE n = 0 -> "0" [] n = 1 -> "1" [] n = 2 -> "2" [] n = 3 -> "3"
      [] n = 4 -> "4" [] OTHER -> "many"

\* obj[key] = value: replaces the value of an own key in place, else appends.
SetKey(obj, key, value) ==
    IF \E i \in 1..Len(obj) : obj[i][1] = key
    THEN [i \in 1..Len(obj) |-> IF obj[i][1] = key THEN <<key, value>> ELSE obj[i]]
    ELSE Append(obj, <<key, value>>)

forbiddenHeaders == {"transfer-encoding", "content-length"}

\* A copy loop that compares the names as the peer wrote them.
RECURSIVE CopyAllowedExact(_)
CopyAllowedExact(headers) ==
    IF headers = <<>> THEN <<>>
    ELSE IF Head(headers)[1] \in forbiddenHeaders
         THEN CopyAllowedExact(Tail(headers))
         ELSE <<Head(headers)>> \o CopyAllowedExact(Tail(headers))

\* The loop of sanitizeForwardedResponseHeaders: copies every pair whose
\* lower-cased name is not forbidden.
RECURSIVE CopyAllowed(_)
CopyAllowed(headers) ==
    IF headers = <<>> THEN <<>>
    ELSE IF toLowerCase(Head(headers)[1]) \in forbiddenHeaders
         THEN CopyAllowed(Tail(headers))
         ELSE <<Head(headers)>> \o CopyAllowed(Tail(headers))

\* sanitizeForwardedResponseHeaders(headers, bodyLength); bodyLength = -1
\* stands for the omitted argument.
sanitizeForwardedResponseHeaders(headers, bodyLength) ==
    LET sanitized == CopyAllowed(headers)
    IN IF bodyLength >= 0
       THEN SetKey(sanitized, "content-length", toString(bodyLength))
       ELSE sanitized

\* String.prototype.toLowerCase on a text of the Accept header.
toLowerCaseChar(c) ==
    CASE c = "T" -> "t" [] c = "E" -> "e" [] c = "X" -> "x" [] c = "V" -> "v"
      [] c = "N" -> "n" [] c = "S" -> "s" [] c = "R" -> "r" [] c = "A" -> "a"
      [] c = "M" -> "m" [] OTHER -> c
toLowerCaseText(text) == [i \in 1..Len(text) |-> toLowerCaseChar(text[i])]

\* String.prototype.includes
includes(text, part) ==
    \E i \in 0..(Len(text) - Len(part)) : SubSeq(text, i + 1, i + Len(part)) = part

\* A shouldStreamResponse that compares the letters as they were sent.
shouldStreamExactCase(accept) ==
    /\ accept.kind # "undefined"
    /\ ~(accept.kind = "string" /\ accept.values[1] = <<>>)
    /\ \E k \in 1..Len(accept.values) : includes(accept.values[k], EventStreamText)

\* shouldStreamResponse(request), lines 245-257: false for a missing or empty
\* header; else some value, lower-cased, includes 'text/event-stream'.
shouldStreamResponse(accept) ==
    /\ accept.kind # "undefined"
    /\ ~(accept.kind = "string" /\ accept.values[1] = <<>>)
    /\ \E k \in 1..Len(accept.values) :
          includes(toLowerCaseText(accept.values[k]), EventStreamText)


(***************************************************************************)
(* The public HTTP response (express Response over node's ServerResponse). *)
(* wireStatus is the status line the client was sent (0: none yet); body   *)
(* is the sequence of byte chunks handed to the client.                    *)
(***************************************************************************)
NewResponse ==
    [statusCode |-> 200, headers |-> <<>>, headersSent |-> FALSE,
     wireStatus |-> 0, body |-> <<>>, ended |-> FALSE]

\* response.status(code)
status(r, code) == [r EXCEPT !.statusCode = code]

\* response.header(name, value) while the headers are not sent yet: node keys
\* the header by its lower-cased name.
header(r, name, value) ==
    IF \E i \in 1..Len(r.headers) : toLowerCase(r.headers[i][1]) = toLowerCase(name)
    THEN [r EXCEPT !.headers =
            [i \in 1..Len(r.headers) |->
                IF toLowerCase(r.headers[i][1]) = toLowerCase(name)
                THEN <<name, value>> ELSE r.headers[i]]]
    ELSE [r EXCEPT !.headers = Append(@, <<name, value>>)]

\* for (const name in sanitizedHeaders) response.header(capitalize.words(name), value)
RECURSIVE SetHeaders(_, _)
SetHeaders(r, hs) ==
    IF hs = <<>> THEN r
    ELSE SetHeaders(header(r, capitalize(Head(hs)[1]), Head(hs)[2]), Tail(hs))

\* response.flushHeaders(), and the implicit header of write/end/send.
flushHeaders(r) ==
    IF r.headersSent THEN r
    ELSE [r EXCEPT !.headersSent = TRUE, !.wireStatus = r.statusCode]

\* response.write(chunk)
write(r, chunk) == [flushHeaders(r) EXCEPT !.body = Append(@, chunk)]

\* response.end()
end(r) == [flushHeaders(r) EXCEPT !.ended = TRUE]

\* response.send(body) while the headers are not sent yet.
send(r, body) == [flushHeaders(r) EXCEPT !.body = Append(@, body), !.ended = TRUE]

(***************************************************************************)
(* Control-channel frames.  An inbound frame is the text the peer sent:    *)
(* type "malformed" is a text JSON.parse rejects.                          *)
(***************************************************************************)
Frame(type, requestId, statusCode, headers, body, isFinal) ==
    [type |-> type, requestId |-> requestId, statusCode |-> statusCode,
     headers |-> headers, body |-> body, isFinal |-> isFinal]

NoFrame == Frame("none", 0, 0, <<>>, "", FALSE)
MalformedFrame == Frame("malformed", 0, 0, <<>>, "", FALSE)

\* Header maps a peer puts in a reply.
ReplyHeaders == {<< <<"Content-Type", "text/plain">> >>}
ReplyStatus == {200}
\* Status codes of a peer that answers with more than one.
PeerStatus == {200, 404}

\* Header maps in which a peer supplies the headers the gateway removes or
\* sets itself, in several letter cases.
PeerHeaderMaps ==
    ReplyHeaders \cup
    {<<>>,
     << <<"Content-Type", "text/plain">>, <<"Transfer-Encoding", "chunked">>,
        <<"CONTENT-LENGTH", "99">> >>,
     << <<"content-length", "99">>, <<"transfer-encoding", "chunked">> >>,
     << <<"Content-Type", "text/plain">>, <<"X-FORWARDED-FOR", "6.6.6.6">> >>}

\* The base64 bodies a peer puts in a forwardedResponse.
ReplyBodies == {"cG9uZw=="}
PeerBodies == {"", "YQ==", "cG9uZw=="}

\* The frames a peer may send: a text that is no JSON, frames about an id of
\* no dispatch (0), and frames about the request ids `ids`; payload[i] is the
\* body of the next non-empty chunk about request i; statuses, hdrs and bodies
\* are the status codes, the header maps and the bodies of its replies.
InboundFramesWith(ids, payload, statuses, hdrs, bodies) ==
    {MalformedFrame,
     Frame("forwardedResponse", 0, 200, <<>>, "cG9uZw==", FALSE),
     Frame("forwardedResponseStreamChunk", 0, 0, <<>>, PayloadAt(1), TRUE)}
    \cup {Frame("forwardedResponse", i, c, h, b, FALSE) :
            i \in ids, c \in statuses, h \in hdrs, b \in bodies}
    \cup {Frame("forwardedResponseStreamStart", i, c, h, "", FALSE) :
            i \in ids, c \in statuses, h \in hdrs}
    \cup UNION {{Frame("forwardedResponseStreamChunk", i, 0, <<>>, b, fin) :
                    b \in {"", payload[i]}, fin \in BOOLEAN} : i \in ids}
    \cup {Frame("pong", i, 0, <<>>, "", FALSE) : i \in ids}

InboundFrames(ids, payload) ==
    InboundFramesWith(ids, payload, ReplyStatus, ReplyHeaders, ReplyBodies)

\* A frame the gateway hands to websocket.sendMessage; responseMode "" stands
\* for a frame without that field.
Outbound(type, requestId, responseMode) ==
    [type |-> type, requestId |-> requestId, responseMode |-> responseMode]


(***************************************************************************)
(* One call of handleRequest: its locals and the closure variables its     *)
(* callbacks share.  pc is how far the call got:                           *)
(*   "none"       not called yet                                           *)
(*   "threw"      new URL threw at line 19 (the async function rejects)    *)
(*   "notfound"   returned at line 27 (no connection for the hostname)     *)
(*   "sendfailed" sendMessage threw at line 61 (the async function rejects)*)
(*   "sent"       sendMessage returned at line 61, the call is on its way  *)
(*                to line 182 (a position only OrderSpec shows)            *)
(*   "installed"  ran to line 212: handler, timer or close watcher are set *)
(* streamingStatusCode 0 and streamingHeaders <<>> stand for undefined.    *)
(* delay is the time in milliseconds the timer was set for (0: no timer).  *)
(* inserts are the createRequestLog inputs this call has issued.  host is  *)
(* the Host header of the request and accept its Accept header.  A call    *)
(* that stopped at "threw", "notfound" or "sendfailed" keeps no local but  *)
(* the hostname.                                                           *)
(***************************************************************************)
NewDispatch(id) ==
    [requestId |-> id, pc |-> "none", host |-> "", hostname |-> "",
     accept |-> NoAccept, shouldStream |-> FALSE,
     listenerRemoved |-> FALSE, streamingCompleted |-> FALSE,
     streamingHeaders |-> <<>>, streamingStatusCode |-> 0,
     response |-> NewResponse, timer |-> "none", delay |-> 0,
     closeWatcher |-> FALSE,
     clientClosed |-> FALSE, inserts |-> <<>>]

\* A removeForwardedResponseHandler that returns before it removes anything.
KeepListener(s) == s

\* removeForwardedResponseHandler: the listener is taken off the websocket
\* exactly when the flag goes from false to true.
removeForwardedResponseHandler(s) ==
    IF s.listenerRemoved THEN s ELSE [s EXCEPT !.listenerRemoved = TRUE]

\* persistRequestLog: issues createRequestLog with the request context and the
\* given response (and pruneRequestLogsOlderThanDays(14), neither awaited).
persistRequestLog(s, statusCode, responseHeaders, responseBody) ==
    [s EXCEPT !.inserts = Append(@,
        [hostname |-> s.hostname, responseStatus |-> statusCode,
         responseHeaders |-> responseHeaders, responseBody |-> responseBody])]

\* Lines 105-124: a forwardedResponseStreamStart in stream mode.  response.header
\* throws once the headers are sent; the catch removes the handler.
OnStreamStart(s, f, ip) ==
    LET startHeaders == SetKey(f.headers, "x-forwarded-for", ip)
        sanitizedHeaders == sanitizeForwardedResponseHeaders(startHeaders, -1)
        s1 == [s EXCEPT !.streamingHeaders = sanitizedHeaders,
                        !.streamingStatusCode = f.statusCode,
                        !.response = status(@, f.statusCode)]
    IN IF s1.response.headersSent
       THEN removeForwardedResponseHandler(s1)
       ELSE [s1 EXCEPT !.response = flushHeaders(SetHeaders(@, sanitizedHeaders))]

\* A chunk handler that tests isFinal before it writes: the payload of a final
\* chunk is lost.
OnStreamChunkFinalFirst(s, f) ==
    LET chunk == b64decode(f.body)
    IN IF f.isFinal
       THEN persistRequestLog(
                removeForwardedResponseHandler(
                    [s EXCEPT !.streamingCompleted = TRUE, !.response = end(@)]),
                IF s.streamingStatusCode # 0 THEN s.streamingStatusCode ELSE 200,
                s.streamingHeaders,
                STREAMED_RESPONSE_BODY_PLACEHOLDER)
       ELSE IF Len(chunk) > 0 THEN [s EXCEPT !.response = write(@, chunk)] ELSE s

\* Lines 126-146: a forwardedResponseStreamChunk in stream mode.
OnStreamChunk(s, f) ==
    LET chunk == b64decode(f.body)
        s1 == IF Len(chunk) > 0 THEN [s EXCEPT !.response = write(@, chunk)] ELSE s
    IN IF f.isFinal
       THEN persistRequestLog(
                removeForwardedResponseHandler(
                    [s1 EXCEPT !.streamingCompleted = TRUE, !.response = end(@)]),
                IF s1.streamingStatusCode # 0 THEN s1.streamingStatusCode ELSE 200,
                s1.streamingHeaders,
                STREAMED_RESPONSE_BODY_PLACEHOLDER)
       ELSE s1

\* A forwardedResponse branch that logs the headers as the peer sent them.
OnForwardedResponseLogRaw(s, f, ip) ==
    LET headers == SetKey(f.headers, "x-forwarded-for", ip)
        responseBody == b64decode(f.body)
        sanitizedHeaders == sanitizeForwardedResponseHeaders(headers, Len(responseBody))
        s1 == [s EXCEPT !.response = status(@, f.statusCode)]
    IN IF s1.response.headersSent
       THEN removeForwardedResponseHandler(s1)
       ELSE removeForwardedResponseHandler(
                persistRequestLog(
                    [s1 EXCEPT !.response = send(SetHeaders(@, sanitizedHeaders), responseBody)],
                    f.statusCode, f.headers, f.body))

\* Lines 149-172: a forwardedResponse, in either mode.
OnForwardedResponse(s, f, ip) ==
    LET headers == SetKey(f.headers, "x-forwarded-for", ip)
        responseBody == b64decode(f.body)
        sanitizedHeaders == sanitizeForwardedResponseHeaders(headers, Len(responseBody))
        s1 == [s EXCEPT !.response = status(@, f.statusCode)]
    IN IF s1.response.headersSent
       THEN removeForwardedResponseHandler(s1)
       ELSE removeForwardedResponseHandler(
                persistRequestLog(
                    [s1 EXCEPT !.response = send(SetHeaders(@, sanitizedHeaders), responseBody)],
                    f.statusCode, sanitizedHeaders, f.body))

\* A handler without the requestId filter.
AnyRequest(s, f) == TRUE

\* The requestId filter of line 100.
IsForThisRequest(s, f) == f.requestId = s.requestId

\* A handler that takes a frame of a type it does not handle for an error and
\* removes itself.
forwardedResponseHandlerStrict(s, f, ip) ==
    IF f.type = "malformed" THEN removeForwardedResponseHandler(s)
    ELSE IF ~IsForThisRequest(s, f) THEN s
    ELSE IF s.shouldStream /\ f.type = "forwardedResponseStreamStart"
         THEN OnStreamStart(s, f, ip)
    ELSE IF s.shouldStream /\ f.type = "forwardedResponseStreamChunk"
         THEN OnStreamChunk(s, f)
    ELSE IF f.type = "forwardedResponse" THEN OnForwardedResponse(s, f, ip)
    ELSE removeForwardedResponseHandler(s)

\* forwardedResponseHandler(text), lines 96-179, for the dispatch in state s.
forwardedResponseHandler(s, f, ip) ==
    IF f.type = "malformed" THEN removeForwardedResponseHandler(s)
    ELSE IF ~IsForThisRequest(s, f) THEN s
    ELSE IF s.shouldStream /\ f.type = "forwardedResponseStreamStart"
         THEN OnStreamStart(s, f, ip)
    ELSE IF s.shouldStream /\ f.type = "forwardedResponseStreamChunk"
         THEN OnStreamChunk(s, f)
    ELSE IF f.type = "forwardedResponse" THEN OnForwardedResponse(s, f, ip)
    ELSE s

(***************************************************************************)
(* The inspector (src/src/handlers/request-logs-dashboard.ts) and the      *)
(* tables it works on.  A text the code takes apart (a password, a token,  *)
(* a decoded Basic credential) is the sequence of its characters.  A value *)
(* that may be undefined is a record [defined, value].                     *)
(***************************************************************************)
Undefined == [defined |-> FALSE, value |-> <<>>]
Some(v) == [defined |-> TRUE, value |-> v]

\* a ?? b
Coalesce(a, b) == IF a.defined THEN a ELSE b

\* Passwords and tokens of the model.
Secret == <<"s", "3">>
ColonSecret == <<"s", ":", "3">>
OtherSecret == <<"b", "9">>
WrongToken == <<"w">>

\* text.split(sep): the segments between the separators.
RECURSIVE split(_, _)
split(text, sep) ==
    IF \A i \in 1..Len(text) : text[i] # sep THEN <<text>>
    ELSE LET k == CHOOSE i \in 1..Len(text) :
                      text[i] = sep /\ \A j \in 1..(i - 1) : text[j] # sep
         IN <<SubSeq(text, 1, k - 1)>> \o split(SubSeq(text, k + 1, Len(text)), sep)

\* An Authorization header with the text scheme + ' ' + rest, where rest is
\* `token` (a text) or `b64` (a base64 text); the unused one is empty.
AuthorizationHeader(scheme, token, b64) ==
    Some([scheme |-> scheme, token |-> token, b64 |-> b64])

\* extractTokenFromAuthorization(header), lines 399-421.  A header that is
\* only the scheme word does not start with 'bearer ' or 'basic ' once it
\* is trimmed.
extractTokenFromAuthorization(authorization) ==
    IF ~authorization.defined THEN Undefined
    ELSE LET value == authorization.value
         IN IF toLowerCase(value.scheme) = "bearer" /\ value.token # <<>>
            THEN Some(value.token)
            ELSE IF toLowerCase(value.scheme) = "basic" /\ value.b64 # ""
            THEN LET decoded == b64decode(value.b64)
                     parts == split(decoded, ":")
                 IN IF Len(parts) >= 2 THEN Some(parts[2]) ELSE Undefined
            ELSE Undefined

\* The fields of a form (URLSearchParams): get('token') as a value that may
\* be undefined; get('action') and get('logId') as texts, "" when missing.
Form(token, action, logId) == [token |-> token, action |-> action, logId |-> logId]
EmptyForm == Form(Undefined, "", "")
UndefinedForm == [defined |-> FALSE, value |-> EmptyForm]

\* request.body: nothing, the raw bytes of a form, or an object some body
\* parser produced.
Body(kind, form) == [kind |-> kind, form |-> form]
NoBody == Body("none", EmptyForm)

\* An inspector request.
InspectorRequest(host, method, body, query, authorization) ==
    [host |-> host, method |-> method, body |-> body, query |-> query,
     authorization |-> authorization]

\* formDataFromRequest(request), lines 383-397.
formDataFromRequest(request) ==
    IF request.body.kind = "buffer" THEN request.body.form ELSE EmptyForm

\* A resolveRequestPassword that prefers the query string to the form.
resolveQueryFirst(request, formData) ==
    LET bodyToken == IF formData.defined THEN formData.value.token ELSE Undefined
        queryToken == request.query
        headerToken == extractTokenFromAuthorization(request.authorization)
    IN Coalesce(queryToken, Coalesce(bodyToken, headerToken))

\* resolveRequestPassword(request, formData), lines 423-429.
resolveRequestPassword(request, formData) ==
    LET bodyToken == IF formData.defined THEN formData.value.token ELSE Undefined
        queryToken == request.query
        headerToken == extractTokenFromAuthorization(request.authorization)
    IN Coalesce(bodyToken, Coalesce(queryToken, headerToken))

\* Number.isFinite(Number(text)) and Number(text) on the logId texts of the
\* model; "" stands for a missing field (Number(null) is 0).
NumberIsFinite(text) == text \in {"", "1", "2", "3", "9"}
Number(text) ==
    CASE text = "1" -> 1 [] text = "2" -> 2 [] text = "3" -> 3 [] text = "9" -> 9
      [] OTHER -> 0

(***************************************************************************)
(* The tables (src/src/repository/request-log-repository.ts).  Table       *)
(* request_logs is the sequence of its rows in insertion order; created_at *)
(* is a DATETIME, kept as the count of seconds of its 'YYYY-MM-DD          *)
(* hh:mm:ss' text (the texts of UTC times order as the counts do).         *)
(***************************************************************************)
\* request-log-repository.ts:5
MS_PER_DAY == 86400000

\* Date.now() when a behaviour starts, in milliseconds since the epoch of the
\* model.
ClockStart == 15 * MS_PER_DAY + 500

\* toMysqlDateTime(date): the date's text with the milliseconds cut off.
toMysqlDateTime(t) == t \div 1000

RequestLog(id, hostname, method, path, requestHeaders, requestBody, responseStatus, responseHeaders, responseBody, createdAt) ==
    [id |-> id, hostname |-> hostname, method |-> method, path |-> path,
     requestHeaders |-> requestHeaders, requestBody |-> requestBody,
     responseStatus |-> responseStatus, responseHeaders |-> responseHeaders,
     responseBody |-> responseBody, createdAt |-> createdAt]

\* createRequestLog(input), lines 47-72: the INSERT, with the id and the
\* created_at the table assigns (AUTO_INCREMENT, CURRENT_TIMESTAMP).
createRequestLog(rows, lastId, t, hostname, method, path, requestHeaders, requestBody, responseStatus, responseHeaders, responseBody) ==
    Append(rows, RequestLog(lastId + 1, hostname, method, path, requestHeaders,
                            requestBody, responseStatus, responseHeaders,
                            responseBody, toMysqlDateTime(t)))

\* A lookup that returns the first row of the table, whatever its id.
findFirstRequestLog(rows, id) == SubSeq(rows, 1, 1)

\* findRequestLogById(id), lines 91-107: the rows with that id (at most one).
findRequestLogById(rows, id) == SelectSeq(rows, LAMBDA r : r.id = id)

\* A delete that empties the table, whatever the hostname.
deleteEveryRequestLog(rows, hostname) == <<>>

\* deleteRequestLogsByHostname(hostname), lines 109-119: the rows that stay.
deleteRequestLogsByHostname(rows, hostname) ==
    SelectSeq(rows, LAMBDA r : r.hostname # hostname)

\* ORDER BY created_at DESC, id DESC
RECURSIVE OrderRecentFirst(_)
OrderRecentFirst(rows) ==
    IF rows = <<>> THEN <<>>
    ELSE LET k == CHOOSE i \in 1..Len(rows) :
                      \A j \in 1..Len(rows) :
                          \/ rows[i].createdAt > rows[j].createdAt
                          \/ rows[i].createdAt = rows[j].createdAt /\ rows[i].id >= rows[j].id
         IN <<rows[k]>> \o OrderRecentFirst(
                SubSeq(rows, 1, k - 1) \o SubSeq(rows, k + 1, Len(rows)))

\* findRecentRequestLogsByHostname(hostname), lines 74-89, with the default
\* limit of 50.
findRecentRequestLogsByHostname(rows, hostname) ==
    LET found == OrderRecentFirst(SelectSeq(rows, LAMBDA r : r.hostname = hostname))
    IN SubSeq(found, 1, IF Len(found) < 50 THEN Len(found) ELSE 50)

\* A prune that deletes the oldest row, whatever its age.
pruneOldestRow(rows, t, days) == IF rows = <<>> THEN rows ELSE Tail(rows)

\* pruneRequestLogsOlderThanDays(days), lines 121-134: the rows that stay.
pruneRequestLogsOlderThanDays(rows, t, days) ==
    LET threshold == t - days * MS_PER_DAY
        cutoff == toMysqlDateTime(threshold)
    IN SelectSeq(rows, LAMBDA r : ~(r.createdAt < cutoff))

\* The rows of request_logs when a behaviour starts: two exchanges of
\* a.example, one a second older than 14 days and one a second younger, and
\* a recent one of b.example.
StoredLogs ==
    LET cutoff == toMysqlDateTime(ClockStart - 14 * MS_PER_DAY)
        posted == << <<"Content-Type", "application/json">> >>
    IN << RequestLog(1, "a.example", "POST", "/x", posted, "e30=", 200, <<>>, "",
                     cutoff - 1),
          RequestLog(2, "a.example", "POST", "/x", posted, "e30=", 200, <<>>, "",
                     cutoff + 1),
          RequestLog(3, "b.example", "GET", "/y", <<>>, "", 200, <<>>, "",
                     toMysqlDateTime(ClockStart) - 60) >>

(***************************************************************************)
(* One call of requestLogsDashboard, lines 536-600: its request, how far   *)
(* it got and what it did.  pc is "none" (no call yet), "replaying" (it    *)
(* awaits the promise of replayRequestThroughTunnel) or "done" (it has     *)
(* answered).  did names the inspector actions it ran; listed are the rows *)
(* it rendered; replay is the closure of replayRequestThroughTunnel.       *)
(***************************************************************************)
NoFlash == [kind |-> "none", text |-> <<>>]
FlashSuccess(text) == [kind |-> "success", text |-> text]
FlashError(text) == [kind |-> "error", text |-> text]

NoReplay == [requestId |-> 0, log |-> <<>>, listening |-> FALSE, timer |-> "none"]

NoInspect ==
    [pc |-> "none",
     req |-> InspectorRequest("", "GET", NoBody, Undefined, Undefined),
     hostname |-> "", status |-> 0, body |-> "", flash |-> NoFlash,
     listed |-> <<>>, did |-> {}, replay |-> NoReplay]

\* Number.prototype.toString on the status codes of the model.
StatusText(code) ==
    CASE code = 200 -> "200" [] code = 201 -> "201" [] OTHER -> "???"

\* response.status(code).send(text)
Respond(call, code, text) ==
    [call EXCEPT !.pc = "done", !.status = code, !.body = text]

\* Lines 597-599: the recent rows of the hostname are read and the page is
\* sent (status 200).
Render(call, rows, flash) ==
    [call EXCEPT !.pc = "done", !.status = 200, !.body = "page", !.flash = flash,
                 !.listed = findRecentRequestLogsByHostname(rows, call.hostname),
                 !.did = @ \cup {"list"}]

\* A cleanup that removes the listener and leaves the timer running.
cleanupListenerOnly(r) == [r EXCEPT !.listening = FALSE]

\* cleanup(), lines 452-455
cleanup(r) == [r EXCEPT !.listening = FALSE, !.timer = "cleared"]

\* A success text that quotes the status the log was stored with.
ReplayedStoredStatus(log, statusCode) ==
    <<"Replayed ", log.method, " ", log.path, " (status ",
      StatusText(log.responseStatus), ").">>

\* The success text of handleReplayAction, line 516.
ReplayedText(log, statusCode) ==
    <<"Replayed ", log.method, " ", log.path, " (status ", StatusText(statusCode), ").">>

(***************************************************************************)
(* State.                                                                  *)
(***************************************************************************)
VARIABLES
    connections,  \* Proxy: the hostnames that have a connection
    peerOpen,     \* per hostname: the peer's websocket is open
    listeners,    \* per hostname: the dispatches whose handler is a 'message' listener
    sent,         \* per hostname: the frames websocket.sendMessage was called with
    dispatch,     \* per request id: the state of that handleRequest call
    nextId,       \* the next request id nanoid() hands out
    lastFrame,    \* the frame a handler acted on last (kept only in HeaderSpec)
    credentials,  \* table request_log_credentials: hostname -> password
    requestLogs,  \* table request_logs: the rows, in insertion order
    lastLogId,    \* the AUTO_INCREMENT counter of request_logs
    now,          \* Date.now(), in milliseconds
    inspect,      \* the requestLogsDashboard call in progress or done last
    inspectCount  \* requestLogsDashboard calls started so far

forwardingVars == <<connections, peerOpen, listeners, sent, dispatch, nextId>>
inspectorVars == <<credentials, requestLogs, lastLogId, now, inspect, inspectCount>>
vars == <<connections, peerOpen, listeners, sent, dispatch, nextId, lastFrame,
          credentials, requestLogs, lastLogId, now, inspect, inspectCount>>

\* The forwarding engine before any request.
ForwardingInit ==
    /\ connections = BoundAtStart
    /\ peerOpen = [h \in Hosts |-> h \in BoundAtStart]
    /\ listeners = [h \in Hosts |-> {}]
    /\ sent = [h \in Hosts |-> {}]
    /\ dispatch = [d \in DispatchIds |-> NewDispatch(d)]
    /\ nextId = 1
    /\ lastFrame = NoFrame

\* The inspector with empty tables and no call made.
InspectorIdle ==
    /\ credentials = [h \in Hosts |-> <<>>]
    /\ requestLogs = <<>>
    /\ lastLogId = 0
    /\ now = 0
    /\ inspect = NoInspect
    /\ inspectCount = 0

Init == ForwardingInit /\ InspectorIdle

\* proxy.findConnectionByHostname(hostname) is defined.
findConnectionByHostname(hostname) == hostname \in connections

\* A 404 body that does not name the hostname.
NotFoundBodyNoHost(hostname) == <<"No matching tunnelmole domain">>

\* The body of the 404 reply, line 26.
NotFoundBody(hostname) == <<"No matching tunnelmole domain for ", hostname>>


\* connection.websocket.removeListener('message', forwardedResponseHandler) was
\* called on the way from dispatch state `old` to `new`.
RemovedListener(old, new) == ~old.listenerRemoved /\ new.listenerRemoved

\* The listeners of a websocket after its dispatches moved from `old` to `new`.
ListenersAfter(ls, old, new) == {d \in ls : ~RemovedListener(old[d], new[d])}

\* The request ids a peer has been sent: sendMessage(forwardedRequest) returned.
KnownIds(h) ==
    {d \in DispatchIds : dispatch[d].pc = "installed" /\ dispatch[d].hostname = h}

\* Chunks handed to clients so far, over all responses.
RECURSIVE ChunksWritten(_, _)
ChunksWritten(ds, n) ==
    IF n = 0 THEN 0 ELSE Len(ds[n].response.body) + ChunksWritten(ds, n - 1)

(***************************************************************************)
(* handleRequest(request, response), lines 17-213.  The request carries    *)
(* the Host header `host` and the Accept header `accept`; sendOk tells     *)
(* whether websocket.sendMessage(forwardedRequest) returns or throws.      *)
(***************************************************************************)
HandleRequest(host, accept, sendOk) ==
    /\ nextId \in DispatchIds
    /\ LET d == nextId
           h == URLhostname(host)
           shouldStream == shouldStreamResponse(accept)
           s0 == [dispatch[d] EXCEPT !.host = host, !.hostname = h]
       IN IF URLThrows(host)
          THEN /\ dispatch' = [dispatch EXCEPT ![d] =
                      [@ EXCEPT !.host = host, !.pc = "threw"]]
               /\ UNCHANGED <<sent, listeners>>
          ELSE IF ~findConnectionByHostname(h)
          THEN /\ dispatch' = [dispatch EXCEPT ![d] =
                      [s0 EXCEPT !.pc = "notfound",
                                 !.response = send(status(@, 404), NotFoundBody(h))]]
               /\ UNCHANGED <<sent, listeners>>
          ELSE /\ sent' = [sent EXCEPT ![h] = @ \cup
                      {Outbound("forwardedRequest", d,
                                IF shouldStream THEN "stream" ELSE "buffer")}]
               /\ IF ~sendOk
                  THEN /\ dispatch' = [dispatch EXCEPT ![d] =
                              [s0 EXCEPT !.pc = "sendfailed"]]
                       /\ UNCHANGED listeners
                  ELSE /\ dispatch' = [dispatch EXCEPT ![d] =
                              [s0 EXCEPT !.pc = "installed",
                                         !.accept = accept,
                                         !.shouldStream = shouldStream,
                                         !.timer = IF shouldStream THEN "none" ELSE "armed",
                                         !.delay = IF shouldStream THEN 0
                                                   ELSE tenMinutesInMilliseconds,
                                         !.closeWatcher = shouldStream]]
                       /\ listeners' = [listeners EXCEPT ![h] = @ \cup {d}]
    /\ nextId' = nextId + 1
    /\ UNCHANGED <<connections, peerOpen, lastFrame, inspectorVars>>

\* The request ids the peer of host h may name in a frame, and the payload of
\* its next non-empty chunk about each.
FrameIds(h) == KnownIds(h)
NextPayload(h) ==
    [i \in FrameIds(h) |-> PayloadAt(Len(dispatch[i].response.body) + 1)]

\* websocket.emit('message', text): every listener of host h runs on frame f.
DeliverEffect(h, f) ==
    [d \in DispatchIds |->
        IF d \in listeners[h]
        THEN forwardedResponseHandler(dispatch[d], f, ipAddress(h))
        ELSE dispatch[d]]

(***************************************************************************)
(* The peer of host h sends frame f: the websocket emits 'message' and     *)
(* every listener runs on it (lines 96-179), in one turn of the event loop.*)
(***************************************************************************)
Deliver(h, f) ==
    /\ peerOpen[h]
    /\ dispatch' = DeliverEffect(h, f)
    /\ ChunksWritten(dispatch', NumDispatch) <= MaxChunks
    /\ listeners' = [listeners EXCEPT ![h] = ListenersAfter(@, dispatch, dispatch')]
    /\ UNCHANGED <<connections, peerOpen, sent, nextId, lastFrame, inspectorVars>>

\* Deliver(h, f), with the frame kept in lastFrame when a handler acted on it.
DeliverRecorded(h, f) ==
    /\ peerOpen[h]
    /\ dispatch' = DeliverEffect(h, f)
    /\ ChunksWritten(dispatch', NumDispatch) <= MaxChunks
    /\ listeners' = [listeners EXCEPT ![h] = ListenersAfter(@, dispatch, dispatch')]
    /\ lastFrame' = IF dispatch' # dispatch THEN f ELSE lastFrame
    /\ UNCHANGED <<connections, peerOpen, sent, nextId, inspectorVars>>

\* A timer callback that forgets to call removeForwardedResponseHandler.
DeadlineNoRemove(d) ==
    /\ dispatch[d].timer = "armed"
    /\ dispatch' = [dispatch EXCEPT ![d].timer = "fired"]
    /\ UNCHANGED <<connections, peerOpen, listeners, sent, nextId, lastFrame, inspectorVars>>

(***************************************************************************)
(* The timer of lines 184-189 fires.                                       *)
(***************************************************************************)
Deadline(d) ==
    /\ dispatch[d].timer = "armed"
    /\ dispatch' = [dispatch EXCEPT ![d] =
            [removeForwardedResponseHandler(@) EXCEPT !.timer = "fired"]]
    /\ listeners' = [h \in Hosts |-> ListenersAfter(listeners[h], dispatch, dispatch')]
    /\ UNCHANGED <<connections, peerOpen, sent, nextId, lastFrame, inspectorVars>>

\* A close watcher without the finally block: the cancel is sent, the handler
\* stays.
ClientCloseNoFinally(d) ==
    /\ dispatch[d].pc = "installed"
    /\ ~dispatch[d].clientClosed
    /\ LET s == [dispatch[d] EXCEPT !.clientClosed = TRUE]
       IN /\ dispatch' = [dispatch EXCEPT ![d] = s]
          /\ IF ~s.closeWatcher \/ s.streamingCompleted
             THEN UNCHANGED sent
             ELSE sent' = [sent EXCEPT ![s.hostname] = @ \cup
                      {Outbound("cancelForwardedRequest", d, "")}]
    /\ UNCHANGED <<connections, peerOpen, listeners, nextId, lastFrame, inspectorVars>>

(***************************************************************************)
(* The client's connection closes: the response emits 'close', which only  *)
(* a stream-mode dispatch watches (lines 191-210).  sendMessage(cancel)    *)
(* may throw: the throw is caught and the finally block runs either way,   *)
(* so both outcomes leave the same state.                                  *)
(***************************************************************************)
ClientClose(d) ==
    /\ dispatch[d].pc = "installed"
    /\ ~dispatch[d].clientClosed
    /\ LET s == [dispatch[d] EXCEPT !.clientClosed = TRUE]
       IN IF ~s.closeWatcher \/ s.streamingCompleted
          THEN /\ dispatch' = [dispatch EXCEPT ![d] = s]
               /\ UNCHANGED sent
          ELSE /\ sent' = [sent EXCEPT ![s.hostname] = @ \cup
                      {Outbound("cancelForwardedRequest", d, "")}]
               /\ dispatch' = [dispatch EXCEPT ![d] = removeForwardedResponseHandler(s)]
    /\ listeners' = [h \in Hosts |-> ListenersAfter(listeners[h], dispatch, dispatch')]
    /\ UNCHANGED <<connections, peerOpen, nextId, lastFrame, inspectorVars>>

(***************************************************************************)
(* The peer's channel closes and its connection leaves the registry.       *)
(* handleRequest registers nothing for this event.                         *)
(***************************************************************************)
PeerClose(h) ==
    /\ peerOpen[h]
    /\ peerOpen' = [peerOpen EXCEPT ![h] = FALSE]
    /\ connections' = connections \ {h}
    /\ UNCHANGED <<listeners, sent, dispatch, nextId, lastFrame, inspectorVars>>

Next ==
    \/ \E host \in ValidHostHeaders, accept \in AcceptHeaders, sendOk \in BOOLEAN :
          HandleRequest(host, accept, sendOk)
    \/ \E h \in Hosts : \E f \in InboundFrames(FrameIds(h), NextPayload(h)) : Deliver(h, f)
    \/ \E d \in DispatchIds : Deadline(d)
    \/ \E d \in DispatchIds : ClientClose(d)
    \/ \E h \in Hosts : PeerClose(h)

Spec == Init /\ [][Next]_vars


\* The frames the peer of host h may send in the current state.
FramesNow(h) == InboundFrames(FrameIds(h), NextPayload(h))

ResponseFrameTypes ==
    {"forwardedResponse", "forwardedResponseStreamStart", "forwardedResponseStreamChunk"}

\* The frames of a peer that never replies: none of them is a response frame
\* about a request it was sent.
QuietFrames(h) ==
    {f \in FramesNow(h) : f.type \notin ResponseFrameTypes \/ f.requestId \notin KnownIds(h)}

\* The gateway with peers that never reply.
QuietNext ==
    \/ \E host \in ValidHostHeaders, accept \in AcceptHeaders, sendOk \in BOOLEAN :
          HandleRequest(host, accept, sendOk)
    \/ \E h \in Hosts : \E f \in QuietFrames(h) : Deliver(h, f)
    \/ \E d \in DispatchIds : Deadline(d)
    \/ \E d \in DispatchIds : ClientClose(d)
    \/ \E h \in Hosts : PeerClose(h)

\* The gateway with peers that never reply and clients that send any Host
\* header.
HostNext ==
    \/ \E host \in HostHeaders, accept \in AcceptHeaders, sendOk \in BOOLEAN :
          HandleRequest(host, accept, sendOk)
    \/ \E h \in Hosts : \E f \in QuietFrames(h) : Deliver(h, f)
    \/ \E d \in DispatchIds : Deadline(d)
    \/ \E d \in DispatchIds : ClientClose(d)
    \/ \E h \in Hosts : PeerClose(h)

HostSpec == Init /\ [][HostNext]_vars

(***************************************************************************)
(* handleRequest in the two parts its statements fall into: up to the      *)
(* sendMessage of line 61, and from there to the return of line 212, which *)
(* registers the handler (line 182), the timer and the close watcher.      *)
(* The call runs to completion: while it stands between the two parts, no  *)
(* other callback runs.                                                    *)
(***************************************************************************)
\* Lines 17-61.
HandleRequestToSend(host, accept, sendOk) ==
    /\ nextId \in DispatchIds
    /\ \A e \in DispatchIds : dispatch[e].pc # "sent"
    /\ LET d == nextId
           h == URLhostname(host)
           s0 == [dispatch[d] EXCEPT !.host = host, !.hostname = h]
       IN IF URLThrows(host)
          THEN /\ dispatch' = [dispatch EXCEPT ![d] =
                      [@ EXCEPT !.host = host, !.pc = "threw"]]
               /\ UNCHANGED sent
          ELSE IF ~findConnectionByHostname(h)
          THEN /\ dispatch' = [dispatch EXCEPT ![d] =
                      [s0 EXCEPT !.pc = "notfound",
                                 !.response = send(status(@, 404), NotFoundBody(h))]]
               /\ UNCHANGED sent
          ELSE /\ sent' = [sent EXCEPT ![h] = @ \cup
                      {Outbound("forwardedRequest", d,
                                IF shouldStreamResponse(accept) THEN "stream" ELSE "buffer")}]
               /\ dispatch' = [dispatch EXCEPT ![d] =
                      IF sendOk
                      THEN [s0 EXCEPT !.pc = "sent",
                                      !.accept = accept,
                                      !.shouldStream = shouldStreamResponse(accept)]
                      ELSE [s0 EXCEPT !.pc = "sendfailed"]]
    /\ nextId' = nextId + 1
    /\ UNCHANGED <<connections, peerOpen, listeners, lastFrame, inspectorVars>>

\* Lines 63-212.
HandleRequestFromSend(d) ==
    /\ dispatch[d].pc = "sent"
    /\ LET shouldStream == dispatch[d].shouldStream
       IN dispatch' = [dispatch EXCEPT ![d] =
              [@ EXCEPT !.pc = "installed",
                        !.timer = IF shouldStream THEN "none" ELSE "armed",
                        !.delay = IF shouldStream THEN 0 ELSE tenMinutesInMilliseconds,
                        !.closeWatcher = shouldStream]]
    /\ listeners' = [listeners EXCEPT ![dispatch[d].hostname] = @ \cup {d}]
    /\ UNCHANGED <<connections, peerOpen, sent, nextId, lastFrame, inspectorVars>>

\* No call of handleRequest stands between its two parts.
NoCallRunning == \A d \in DispatchIds : dispatch[d].pc # "sent"

OrderNext ==
    \/ \E host \in ValidHostHeaders, accept \in AcceptHeaders, sendOk \in BOOLEAN :
          HandleRequestToSend(host, accept, sendOk)
    \/ \E d \in DispatchIds : HandleRequestFromSend(d)
    \/ NoCallRunning /\ \E h \in Hosts : \E f \in FramesNow(h) : Deliver(h, f)
    \/ NoCallRunning /\ \E d \in DispatchIds : Deadline(d)
    \/ NoCallRunning /\ \E d \in DispatchIds : ClientClose(d)
    \/ NoCallRunning /\ \E h \in Hosts : PeerClose(h)

OrderSpec == Init /\ [][OrderNext]_vars

\* The gateway handling at most HeaderDispatches requests, with clients that
\* send any of AcceptCases.
ModeNext ==
    \/ /\ nextId <= HeaderDispatches
       /\ \E host \in ValidHostHeaders, accept \in AcceptCases, sendOk \in BOOLEAN :
             HandleRequest(host, accept, sendOk)
    \/ \E h \in Hosts : \E f \in FramesNow(h) : Deliver(h, f)
    \/ \E d \in DispatchIds : Deadline(d)
    \/ \E d \in DispatchIds : ClientClose(d)
    \/ \E h \in Hosts : PeerClose(h)

ModeSpec == Init /\ [][ModeNext]_vars

\* The frames the peer of host h may send when it fills its replies with any
\* of PeerHeaderMaps and PeerBodies.
HeaderFrames(h) ==
    InboundFramesWith(FrameIds(h), NextPayload(h), ReplyStatus, PeerHeaderMaps, PeerBodies)

\* The gateway handling at most HeaderDispatches requests, with peers that
\* supply any header map; the last frame acted on is kept.  Only the handler
\* writes to a response, so the steps that write nothing (timer, client
\* close, peer close) are left out.
HeaderNext ==
    \/ /\ nextId <= HeaderDispatches
       /\ \E host \in ValidHostHeaders, accept \in AcceptHeaders, sendOk \in BOOLEAN :
             HandleRequest(host, accept, sendOk)
    \/ \E h \in Hosts : \E f \in HeaderFrames(h) : DeliverRecorded(h, f)

HeaderSpec == Init /\ [][HeaderNext]_vars

\* The frames of a peer that answers with either status of PeerStatus, with
\* or without the headers the gateway removes, and with or without a body.
LogHeaderMaps ==
    ReplyHeaders \cup
    {<< <<"Content-Type", "text/plain">>, <<"Transfer-Encoding", "chunked">>,
        <<"CONTENT-LENGTH", "99">> >>}
LogFrames(h) ==
    InboundFramesWith(FrameIds(h), NextPayload(h), PeerStatus, LogHeaderMaps,
                      ReplyBodies \cup {""})

\* The gateway handling at most HeaderDispatches requests, with such peers;
\* the last frame acted on is kept.  Only the handler issues RequestLogs.
LogNext ==
    \/ /\ nextId <= HeaderDispatches
       /\ \E host \in ValidHostHeaders, accept \in AcceptHeaders, sendOk \in BOOLEAN :
             HandleRequest(host, accept, sendOk)
    \/ \E h \in Hosts : \E f \in LogFrames(h) : DeliverRecorded(h, f)

LogSpec == Init /\ [][LogNext]_vars

(***************************************************************************)
(* The inspector's steps.  A call of requestLogsDashboard runs, in one     *)
(* step, up to its answer or up to the promise of                          *)
(* replayRequestThroughTunnel it awaits; the statements it awaits on the   *)
(* way (the tables) complete in that step.  One call is in progress at a   *)
(* time.                                                                   *)
(***************************************************************************)
\* A lookup that ignores the hostname.
getPasswordOfAnyHost(hostname) == credentials["a.example"]

\* getRequestLogPassword(hostname): <<>> when the table has no row for it.
getRequestLogPassword(hostname) ==
    IF hostname \in DOMAIN credentials THEN credentials[hostname] ELSE <<>>

\* The request id nanoid() gives the replay of the n-th inspector call: an id
\* no public dispatch has.
ReplayId(n) == NumDispatch + n

\* handleReplayAction(hostname, logId), lines 490-522, up to the promise of
\* replayRequestThroughTunnel (lines 433-488); rows is the table as the call
\* found it after its sweep.
StartReplay(call, rows, logIdText, sendOk) ==
    LET logId == Number(logIdText)
        found == findRequestLogById(rows, logId)
    IN IF ~NumberIsFinite(logIdText)
       THEN /\ inspect' = Render(call, rows, FlashError(<<"Invalid log id.">>))
            /\ UNCHANGED sent
       ELSE IF found = <<>> \/ found[1].hostname # call.hostname
       THEN /\ inspect' = Render(call, rows,
                              FlashError(<<"Request log not found for this host.">>))
            /\ UNCHANGED sent
       ELSE LET log == found[1]
                replaying == [call EXCEPT !.did = @ \cup {"replay"}]
                r == [requestId |-> ReplayId(inspectCount + 1), log |-> <<log>>,
                      listening |-> TRUE, timer |-> "armed"]
            IN IF ~findConnectionByHostname(log.hostname)
               THEN /\ inspect' = Render(replaying, rows,
                              FlashError(<<"No active tunnel for this hostname.">>))
                    /\ UNCHANGED sent
               ELSE /\ sent' = [sent EXCEPT ![log.hostname] = @ \cup
                              {Outbound("forwardedRequest", r.requestId, "")}]
                    /\ IF sendOk
                       THEN inspect' = [replaying EXCEPT !.pc = "replaying", !.replay = r]
                       ELSE inspect' = Render([replaying EXCEPT !.replay = cleanup(r)],
                                              rows, FlashError(<<"send failed">>))

\* requestLogsDashboard from line 553 on: the sweep of old rows, the gate and
\* the action.
Gate(call, sendOk) ==
    LET req == call.req
        hostname == call.hostname
        rows == pruneRequestLogsOlderThanDays(requestLogs, now, 14)
        storedPassword == getRequestLogPassword(hostname)
        formData == IF req.method = "POST"
                    THEN [defined |-> TRUE, value |-> formDataFromRequest(req)]
                    ELSE UndefinedForm
        providedPassword == resolveRequestPassword(req, formData)
        action == formData.value.action
    IN IF storedPassword = <<>>
       THEN /\ inspect' = Respond(call, 404,
                   "No log password provisioned for this host yet. Connect a tunnel first.")
            /\ requestLogs' = rows
            /\ UNCHANGED <<lastLogId, sent>>
       ELSE IF ~providedPassword.defined \/ providedPassword.value = <<>>
       THEN /\ inspect' = Respond(call, 401,
                   "Log password required. Append ?token=PASSWORD or provide a Bearer token.")
            /\ requestLogs' = rows
            /\ UNCHANGED <<lastLogId, sent>>
       ELSE IF providedPassword.value # storedPassword
       THEN /\ inspect' = Respond(call, 401, "Invalid log password for this host.")
            /\ requestLogs' = rows
            /\ UNCHANGED <<lastLogId, sent>>
       ELSE IF req.method # "POST"
       THEN /\ inspect' = Render(call, rows, NoFlash)
            /\ requestLogs' = rows
            /\ UNCHANGED <<lastLogId, sent>>
       ELSE IF action = "prune"
       THEN LET kept == deleteRequestLogsByHostname(rows, hostname)
                deleted == Len(rows) - Len(kept)
            IN /\ inspect' = Render([call EXCEPT !.did = @ \cup {"prune"}], kept,
                       IF deleted > 0
                       THEN FlashSuccess(<<"Deleted ", toString(deleted), " log(s) for ",
                                           hostname, ".">>)
                       ELSE FlashSuccess(<<"No logs to prune for this host.">>))
               /\ requestLogs' = kept
               /\ UNCHANGED <<lastLogId, sent>>
       ELSE IF action = "replay"
       THEN /\ StartReplay(call, rows, formData.value.logId, sendOk)
            /\ requestLogs' = rows
            /\ UNCHANGED lastLogId
       ELSE /\ inspect' = Render(call, rows, FlashError(<<"Unknown action requested.">>))
            /\ requestLogs' = rows
            /\ UNCHANGED <<lastLogId, sent>>

\* requestLogsDashboard(request, response), lines 536-600.  sendOk tells
\* whether websocket.sendMessage returns or throws, should the call replay.
InspectRequest(req, sendOk) ==
    /\ inspectCount < NumInspect
    /\ inspect.pc # "replaying"
    /\ inspectCount' = inspectCount + 1
    /\ LET call == [NoInspect EXCEPT !.req = req]
       IN IF req.host = ""
          THEN /\ inspect' = Respond(call, 400, "Host header required to view logs.")
               /\ UNCHANGED <<requestLogs, lastLogId, sent>>
          ELSE IF URLThrows(req.host)
          THEN /\ inspect' = Respond(call, 400, "Invalid host header.")
               /\ UNCHANGED <<requestLogs, lastLogId, sent>>
          ELSE Gate([call EXCEPT !.hostname = URLhostname(req.host)], sendOk)
    /\ UNCHANGED <<connections, peerOpen, listeners, dispatch, nextId, lastFrame,
                   credentials, now>>

\* The frames the peer may send while a replay with request id rid waits.
ReplayFrames(rid) ==
    {MalformedFrame,
     Frame("forwardedResponse", 0, 201, <<>>, "cG9uZw==", FALSE),
     Frame("forwardedResponse", rid, 201, << <<"Content-Type", "text/plain">> >>,
           "cG9uZw==", FALSE),
     Frame("forwardedResponseStreamStart", rid, 201, <<>>, "", FALSE),
     Frame("pong", rid, 0, <<>>, "", FALSE)}

\* The peer of a replay sends frame f: the public handlers run on it and so
\* does the replay's forwardedResponseHandler (lines 462-477) while it is a
\* listener; on the forwardedResponse with its id it cleans up and resolves
\* the promise, handleReplayAction goes on (lines 504-517) and the page is
\* rendered.  Resolving a promise that is settled does nothing.
ReplayDeliver(f) ==
    /\ inspect.replay.requestId # 0
    /\ LET r == inspect.replay
           log == r.log[1]
           h == log.hostname
       IN /\ peerOpen[h]
          /\ dispatch' = DeliverEffect(h, f)
          /\ listeners' = [listeners EXCEPT ![h] = ListenersAfter(@, dispatch, dispatch')]
          /\ IF r.listening /\ f.type = "forwardedResponse" /\ f.requestId = r.requestId
             THEN IF inspect.pc = "replaying"
                  THEN LET rows == createRequestLog(requestLogs, lastLogId, now,
                                       log.hostname, log.method, log.path,
                                       log.requestHeaders, log.requestBody,
                                       f.statusCode, f.headers, f.body)
                       IN /\ requestLogs' = rows
                          /\ lastLogId' = lastLogId + 1
                          /\ inspect' = Render([inspect EXCEPT !.replay = cleanup(r)], rows,
                                               FlashSuccess(ReplayedText(log, f.statusCode)))
                  ELSE /\ inspect' = [inspect EXCEPT !.replay = cleanup(r)]
                       /\ UNCHANGED <<requestLogs, lastLogId>>
             ELSE UNCHANGED <<requestLogs, lastLogId, inspect>>
    /\ lastFrame' = f
    /\ UNCHANGED <<connections, peerOpen, sent, nextId, credentials, now, inspectCount>>

\* The timer of lines 457-460 fires: cleanup, the promise rejects and
\* handleReplayAction returns the error (lines 518-521).  Rejecting a promise
\* that is settled does nothing.
ReplayTimeout ==
    /\ inspect.replay.timer = "armed"
    /\ LET fired == [inspect EXCEPT !.replay = [cleanup(@) EXCEPT !.timer = "fired"]]
       IN inspect' =
             IF inspect.pc = "replaying"
             THEN Render(fired, requestLogs,
                         FlashError(<<"Timed out while waiting for replay response.">>))
             ELSE fired
    /\ UNCHANGED <<forwardingVars, lastFrame, credentials, requestLogs, lastLogId, now,
                   inspectCount>>

\* The hostnames inspector requests name, and the passwords provisioned.
InspectHosts == Hosts \cup {"c.example"}
StoredPasswords == {Secret, ColonSecret}

\* The tables when a behaviour of the inspector starts: a.example and
\* b.example have a password, c.example has none.
InspectInit ==
    /\ ForwardingInit
    /\ credentials \in
          {[h \in InspectHosts |->
               CASE h = "a.example" -> p [] h = "b.example" -> OtherSecret [] OTHER -> <<>>] :
           p \in StoredPasswords}
    /\ requestLogs = StoredLogs
    /\ lastLogId = Len(StoredLogs)
    /\ now = ClockStart
    /\ inspect = NoInspect
    /\ inspectCount = 0

\* The requests of the inspector's users: the token travels in the query
\* string (GET) or in the form (POST), as the links and forms of the page
\* send it.
InspectTokens == {Undefined, Some(Secret), Some(OtherSecret)}
InspectForms ==
    {Form(t, a, "") : t \in InspectTokens, a \in {"", "prune", "x"}}
    \cup {Form(t, "replay", id) : t \in InspectTokens, id \in {"", "1", "2", "3", "9", "abc"}}
InspectRequests ==
    {InspectorRequest(host, "GET", NoBody, t, Undefined) :
        host \in InspectHosts \cup {"", "a b.example"}, t \in InspectTokens}
    \cup {InspectorRequest(host, "POST", Body("buffer", form), Undefined, Undefined) :
        host \in InspectHosts \cup {"", "a b.example"}, form \in InspectForms}

InspectNext ==
    \/ \E req \in InspectRequests, sendOk \in BOOLEAN : InspectRequest(req, sendOk)
    \/ \E f \in ReplayFrames(inspect.replay.requestId) : ReplayDeliver(f)
    \/ ReplayTimeout

InspectSpec == InspectInit /\ [][InspectNext]_vars

\* Requests that present tokens in every place the gate looks at, and in
\* places it does not look at.
AuthTokens == {Undefined, Some(<<>>), Some(Secret), Some(ColonSecret), Some(WrongToken)}
AuthorizationHeaders ==
    {Undefined,
     AuthorizationHeader("Bearer", Secret, ""),
     AuthorizationHeader("bearer", WrongToken, ""),
     AuthorizationHeader("Bearer", <<>>, ""),
     AuthorizationHeader("Basic", <<>>, "dTpzMw=="),
     AuthorizationHeader("BASIC", <<>>, "dTpzOjM="),
     AuthorizationHeader("Basic", <<>>, "OnMz"),
     AuthorizationHeader("Basic", <<>>, "dXMz"),
     AuthorizationHeader("Basic", <<>>, "dTp3"),
     AuthorizationHeader("Digest", Secret, "")}
AuthBodies ==
    {NoBody} \cup {Body(k, Form(t, "", "")) : k \in {"buffer", "object"}, t \in AuthTokens}
AuthRequests ==
    {InspectorRequest("a.example", m, b, q, a) :
        m \in {"GET", "POST"}, b \in AuthBodies, q \in AuthTokens,
        a \in AuthorizationHeaders}

\* The gate applied to one request, drawn when the behaviour starts (and
\* sent again by its user).
AuthInit ==
    /\ ForwardingInit
    /\ credentials \in
          {[h \in InspectHosts |->
               CASE h = "a.example" -> p [] h = "b.example" -> OtherSecret [] OTHER -> <<>>] :
           p \in StoredPasswords}
    /\ requestLogs = StoredLogs
    /\ lastLogId = Len(StoredLogs)
    /\ now = ClockStart
    /\ inspect \in {[NoInspect EXCEPT !.req = req] : req \in AuthRequests}
    /\ inspectCount = 0

AuthNext == InspectRequest(inspect.req, TRUE)

AuthSpec == AuthInit /\ [][AuthNext]_vars

(***************************************************************************)
(* Table request_logs on its own: rows are inserted, time passes and the   *)
(* sweep of old rows runs, in any order (persistRequestLog and             *)
(* requestLogsDashboard issue these statements independently).             *)
(***************************************************************************)
\* Amounts of time between two statements, in milliseconds.
ClockSteps == {500, 1000}

PruneInit ==
    /\ ForwardingInit
    /\ credentials = [h \in Hosts |-> <<>>]
    /\ requestLogs = StoredLogs
    /\ lastLogId = Len(StoredLogs)
    /\ now = ClockStart
    /\ inspect = NoInspect
    /\ inspectCount = 0

\* The INSERT of createRequestLog for an exchange of hostname h.
InsertLog(h) ==
    /\ lastLogId < Len(StoredLogs) + MaxInserts
    /\ requestLogs' = createRequestLog(requestLogs, lastLogId, now, h, "GET", "/",
                                       <<>>, "", 200, <<>>, "")
    /\ lastLogId' = lastLogId + 1
    /\ UNCHANGED <<forwardingVars, lastFrame, credentials, now, inspect, inspectCount>>

\* Date.now() advances by ms.
ClockTick(ms) ==
    /\ now + ms <= ClockStart + MaxSeconds * 1000
    /\ now' = now + ms
    /\ UNCHANGED <<forwardingVars, lastFrame, credentials, requestLogs, lastLogId,
                   inspect, inspectCount>>

\* pruneRequestLogsOlderThanDays(14), as lines 91 of handle-request.ts and
\* 553 of request-logs-dashboard.ts call it.
PruneOld ==
    /\ requestLogs' = pruneRequestLogsOlderThanDays(requestLogs, now, 14)
    /\ UNCHANGED <<forwardingVars, lastFrame, credentials, lastLogId, now, inspect,
                   inspectCount>>

PruneNext ==
    \/ \E h \in Hosts : InsertLog(h)
    \/ \E ms \in ClockSteps : ClockTick(ms)
    \/ PruneOld

PruneSpec == PruneInit /\ [][PruneNext]_vars

\* setTimeout callbacks run once their delay has passed: a timer that is armed
\* fires.
QuietFairSpec == Init /\ [][QuietNext]_vars /\ \A d \in DispatchIds : WF_vars(Deadline(d))

(***************************************************************************)
(* Vocabulary of the properties.                                           *)
(***************************************************************************)

Installed(d) == dispatch[d].pc = "installed"
Buffered(d) == Installed(d) /\ ~dispatch[d].shouldStream
Streamed(d) == Installed(d) /\ dispatch[d].shouldStream
Subscribed(d) == d \in listeners[dispatch[d].hostname]

\* Whether the handler of d is still a listener of host h when the dispatches
\* have moved to `after`.
StillSubscribed(d, h, after) ==
    d \in listeners[h] /\ ~RemovedListener(dispatch[d], after[d])

\* The value of the header `name` (lower case) a response carries; <<>> when
\* it carries none.
HeaderValues(r, name) ==
    {r.headers[i][2] : i \in {j \in 1..Len(r.headers) : toLowerCase(r.headers[j][1]) = name}}

\* The response of d was delivered buffered: written by response.send from a
\* forwardedResponse frame.
DeliveredBuffered(d) ==
    /\ Len(dispatch[d].inserts) = 1
    /\ dispatch[d].inserts[1].responseBody # STREAMED_RESPONSE_BODY_PLACEHOLDER

\* The bytes of the first k payloads, in order.
PayloadsUpTo(k) == [i \in 1..k |-> b64decode(PayloadAt(i))]

(***************************************************************************)
(* C1.  A response frame changes only the dispatch whose requestId it      *)
(* carries: in every reachable state, whichever response frame the peer    *)
(* sends next, every other dispatch keeps its client response, its closure *)
(* state, its subscription and the RequestLogs it has issued.              *)
(***************************************************************************)
C1_OnlyMatchingDispatchChanges ==
    \A h \in Hosts : peerOpen[h] =>
        \A f \in FramesNow(h) : f.type \in ResponseFrameTypes =>
            LET after == DeliverEffect(h, f)
            IN \A d \in DispatchIds : d # f.requestId =>
                  /\ after[d] = dispatch[d]
                  /\ StillSubscribed(d, h, after) = (d \in listeners[h])

\* Two dispatches share a peer; one has been answered, the other is untouched
\* and still subscribed.
C1_Witness ==
    \E d1, d2 \in DispatchIds :
        /\ d1 # d2 /\ Installed(d1) /\ Installed(d2)
        /\ dispatch[d1].hostname = dispatch[d2].hostname
        /\ dispatch[d1].response.ended /\ Len(dispatch[d1].response.body) > 0
        /\ Subscribed(d2) /\ dispatch[d2].response = NewResponse
        /\ dispatch[d2].inserts = <<>>

(***************************************************************************)
(* C2.  A malformed frame affects at most one dispatch: whenever the peer  *)
(* sends an unparseable text, at most one handler stops listening.         *)
(***************************************************************************)
C2_MalformedAffectsAtMostOne ==
    \A h \in Hosts : peerOpen[h] =>
        LET after == DeliverEffect(h, MalformedFrame)
        IN Cardinality({d \in listeners[h] : ~StillSubscribed(d, h, after)}) <= 1

(***************************************************************************)
(* C3.  A buffered dispatch is answered by the first forwardedResponse     *)
(* with its requestId and by nothing else: while its handler listens, such *)
(* a frame writes the frame's status, headers and decoded body, ends the   *)
(* response, issues one RequestLog and removes the handler; once the       *)
(* handler is gone (after the reply, the deadline or an error) such a      *)
(* frame changes nothing; so the body is written and the RequestLog issued *)
(* at most once.                                                           *)
(***************************************************************************)
C3_BufferedReplyOnce ==
    \A d \in DispatchIds : Buffered(d) =>
        LET h == dispatch[d].hostname
            s == dispatch[d]
        IN /\ Len(s.response.body) <= 1 /\ Len(s.inserts) <= 1
           /\ s.response.ended => ~Subscribed(d)
           /\ Subscribed(d) => s.response = NewResponse /\ s.inserts = <<>>
           /\ peerOpen[h] =>
                \A f \in FramesNow(h) :
                    (f.type = "forwardedResponse" /\ f.requestId = d) =>
                        LET after == DeliverEffect(h, f)
                            t == after[d]
                        IN IF Subscribed(d)
                           THEN /\ t.response.wireStatus = f.statusCode
                                /\ t.response.body = <<b64decode(f.body)>>
                                /\ t.response.ended
                                /\ \A i \in 1..Len(f.headers) :
                                      \E j \in 1..Len(t.response.headers) :
                                          t.response.headers[j] = f.headers[i]
                                /\ Len(t.inserts) = 1
                                /\ ~StillSubscribed(d, h, after)
                           ELSE t = s

\* A buffered dispatch that was answered while its peer is still connected
\* (and may send the same reply again).
C3_Witness ==
    \E d \in DispatchIds :
        /\ Buffered(d) /\ peerOpen[dispatch[d].hostname]
        /\ dispatch[d].response.ended /\ dispatch[d].response.wireStatus = 200
        /\ dispatch[d].response.body = << <<"p", "o", "n", "g">> >>
        /\ Len(dispatch[d].inserts) = 1 /\ ~Subscribed(d)


(***************************************************************************)
(* C4.  In a stream-mode dispatch whose Start frame was applied, while the *)
(* handler listens every chunk frame appends its decoded bytes to the      *)
(* client body when they are non-empty (so the body is the payloads in     *)
(* arrival order), the response is ended exactly by a chunk with isFinal,  *)
(* which also removes the handler, and after that final chunk no chunk     *)
(* frame changes the response.                                             *)
(***************************************************************************)
C4_StreamChunksInOrder ==
    \A d \in DispatchIds : (Streamed(d) /\ dispatch[d].streamingHeaders # <<>>) =>
        LET h == dispatch[d].hostname
            s == dispatch[d]
        IN /\ s.response.body = PayloadsUpTo(Len(s.response.body))
           /\ s.response.ended = s.streamingCompleted
           /\ s.streamingCompleted => ~Subscribed(d)
           /\ peerOpen[h] =>
                \A f \in FramesNow(h) :
                    (f.type = "forwardedResponseStreamChunk" /\ f.requestId = d) =>
                        LET after == DeliverEffect(h, f)
                            t == after[d]
                            chunk == b64decode(f.body)
                        IN IF Subscribed(d)
                           THEN /\ t.response.body =
                                      IF chunk # <<>> THEN Append(s.response.body, chunk)
                                      ELSE s.response.body
                                /\ t.response.ended = f.isFinal
                                /\ StillSubscribed(d, h, after) = ~f.isFinal
                           ELSE t = s

\* A stream that got its Start, then chunk "a", then the final chunk "b",
\* while the peer is still connected (and may send more chunks).
C4_Witness ==
    \E d \in DispatchIds :
        /\ Streamed(d) /\ dispatch[d].streamingHeaders # <<>>
        /\ peerOpen[dispatch[d].hostname]
        /\ dispatch[d].response.body = << <<"a">>, <<"b">> >>
        /\ dispatch[d].response.ended /\ dispatch[d].streamingCompleted


(***************************************************************************)
(* C5.  When the client of a stream-mode dispatch has closed before a      *)
(* final chunk was processed, sendMessage was called with a                *)
(* cancelForwardedRequest carrying the dispatch's requestId, the handler   *)
(* is no longer a listener of the peer, and no frame the peer sends        *)
(* afterwards changes the client response.                                 *)
(***************************************************************************)
C5_ClientAbortCancelsStream ==
    \A d \in DispatchIds :
        (Streamed(d) /\ dispatch[d].clientClosed /\ ~dispatch[d].streamingCompleted) =>
            LET h == dispatch[d].hostname
            IN /\ Outbound("cancelForwardedRequest", d, "") \in sent[h]
               /\ ~Subscribed(d)
               /\ \A f \in FramesNow(h) :
                     DeliverEffect(h, f)[d].response = dispatch[d].response

\* Scenario 3: after Start and one chunk the client closes, the peer still
\* being connected.
C5_Witness ==
    \E d \in DispatchIds :
        /\ Streamed(d) /\ dispatch[d].clientClosed /\ ~dispatch[d].streamingCompleted
        /\ peerOpen[dispatch[d].hostname]
        /\ dispatch[d].streamingHeaders # <<>>
        /\ dispatch[d].response.body = << <<"a">> >>
        /\ ~dispatch[d].response.ended

(***************************************************************************)
(* C6.  With a peer that never replies, the deadline of a buffered         *)
(* dispatch eventually fires, and when it has fired the dispatch's handler *)
(* is no longer a listener of the peer; the listeners of a peer are always *)
(* exactly the handlers of its dispatches that were not removed, so the    *)
(* count is back to what it was before the dispatch started.               *)
(***************************************************************************)
C6_DeadlineRemovesListener ==
    /\ \A d \in DispatchIds :
          Buffered(d) ~> (dispatch[d].timer = "fired" /\ ~Subscribed(d))
    /\ [](\A d \in DispatchIds : dispatch[d].timer = "fired" => ~Subscribed(d))
    /\ [](\A h \in Hosts :
            listeners[h] = {d \in DispatchIds :
                Installed(d) /\ dispatch[d].hostname = h /\ ~dispatch[d].listenerRemoved})

\* The peer never replied to a buffered request, the timer fired and the peer
\* has no listener left.
C6_Witness ==
    \E d \in DispatchIds :
        /\ Buffered(d) /\ dispatch[d].timer = "fired"
        /\ dispatch[d].response = NewResponse
        /\ peerOpen[dispatch[d].hostname]
        /\ listeners[dispatch[d].hostname] = {}

(***************************************************************************)
(* C7.  When the deadline of a buffered dispatch has expired and no reply  *)
(* was processed before, the client has received HTTP 504.                 *)
(***************************************************************************)
C7_DeadlineAnswers504 ==
    \A d \in DispatchIds :
        (Buffered(d) /\ dispatch[d].timer = "fired" /\ dispatch[d].inserts = <<>>) =>
            dispatch[d].response.wireStatus = 504

(***************************************************************************)
(* C8.  When the peer's channel has closed, every dispatch of that peer is *)
(* terminated: its handler is removed and its client response is ended,    *)
(* with HTTP 502 when no reply and no byte had been sent.                  *)
(***************************************************************************)
C8_PeerCloseTerminates ==
    \A d \in DispatchIds :
        (Installed(d) /\ ~peerOpen[dispatch[d].hostname]) =>
            /\ ~Subscribed(d)
            /\ dispatch[d].response.ended
            /\ (dispatch[d].inserts = <<>> /\ dispatch[d].response.body = <<>>) =>
                  dispatch[d].response.wireStatus = 502

(***************************************************************************)
(* C9.  When sending the forwardedRequest frame failed, the client has     *)
(* received HTTP 502 and no handler of the dispatch listens on the peer.   *)
(***************************************************************************)
C9_SendFailureAnswers502 ==
    \A d \in DispatchIds : dispatch[d].pc = "sendfailed" =>
        /\ dispatch[d].response.wireStatus = 502
        /\ \A h \in Hosts : d \notin listeners[h]

(***************************************************************************)
(* C10.  A request for a hostname without a connection is answered 404     *)
(* with a body that contains the hostname, and nothing else happens for    *)
(* it: no frame about it is sent to any peer, no listener is registered,   *)
(* no timer is armed and no RequestLog is issued.  A request for a         *)
(* hostname that never had a connection always ends this way.              *)
(***************************************************************************)
C10_NoPeerAnswers404 ==
    \A d \in DispatchIds :
        /\ (dispatch[d].pc # "none" /\ dispatch[d].hostname \notin BoundAtStart) =>
              dispatch[d].pc = "notfound"
        /\ dispatch[d].pc = "notfound" =>
              /\ dispatch[d].hostname \notin connections
              /\ dispatch[d].response.wireStatus = 404
              /\ dispatch[d].response.ended
              /\ Len(dispatch[d].response.body) = 1
              /\ \E i \in 1..Len(dispatch[d].response.body[1]) :
                    dispatch[d].response.body[1][i] = dispatch[d].hostname
              /\ \A h \in Hosts :
                    /\ d \notin listeners[h]
                    /\ \A m \in sent[h] : m.requestId # d
              /\ dispatch[d].inserts = <<>>
              /\ dispatch[d].timer = "none" /\ ~dispatch[d].closeWatcher

\* Scenario 4: a request for b.example, which is unbound, was answered.
C10_Witness ==
    \E d \in DispatchIds :
        /\ dispatch[d].pc = "notfound" /\ dispatch[d].hostname = "b.example"
        /\ dispatch[d].response.wireStatus = 404

(***************************************************************************)
(* C11.  A public request whose Host header is missing or is no URL        *)
(* authority is answered with HTTP 400 and is never looked up in the       *)
(* registry under some hostname.                                           *)
(***************************************************************************)
C11_BadHostAnswers400 ==
    \A d \in DispatchIds :
        (dispatch[d].pc # "none" /\ dispatch[d].host \in {"", "a b.example"}) =>
            /\ dispatch[d].response.wireStatus = 400
            /\ dispatch[d].hostname = ""

(***************************************************************************)
(* C12.  A dispatch that has terminated (its response is ended or its      *)
(* handler is removed) after something was sent to the client (at least    *)
(* the status line and headers) has issued exactly one RequestLog insert.  *)
(***************************************************************************)
C12_OneLogPerSentResponse ==
    \A d \in DispatchIds :
        (/\ Installed(d)
         /\ dispatch[d].response.headersSent
         /\ (dispatch[d].response.ended \/ ~Subscribed(d))) =>
            Len(dispatch[d].inserts) = 1

(***************************************************************************)
(* C13.  Whatever header names, in whatever letter case, the peer puts in  *)
(* its frames, a response emitted for a forwarded request never carries    *)
(* transfer-encoding, and it carries content-length exactly when it was    *)
(* delivered buffered from a forwardedResponse frame, with the length of   *)
(* the decoded body as its value: the body of the forwardedResponse the    *)
(* handler acted on.                                                       *)
(***************************************************************************)
ForwardedHeadersOk(r, buffered) ==
    /\ HeaderValues(r, "transfer-encoding") = {}
    /\ IF buffered
       THEN /\ Len(r.body) = 1
            /\ HeaderValues(r, "content-length") = {toString(Len(r.body[1]))}
       ELSE HeaderValues(r, "content-length") = {}

C13_ForbiddenHeadersNeverEmitted ==
    \A d \in DispatchIds : Installed(d) =>
        /\ dispatch[d].response.headersSent =>
              ForwardedHeadersOk(dispatch[d].response, DeliveredBuffered(d))
        /\ (DeliveredBuffered(d) /\ lastFrame.requestId = d) =>
              /\ lastFrame.type = "forwardedResponse"
              /\ dispatch[d].response.body = <<b64decode(lastFrame.body)>>

\* The peer answered with a forwardedResponse that carries Transfer-Encoding
\* and CONTENT-LENGTH: 99; the client got the 4 bytes with Content-Length 4.
C13_Witness ==
    \E d \in DispatchIds :
        /\ Installed(d) /\ lastFrame.requestId = d
        /\ lastFrame.type = "forwardedResponse"
        /\ \E i \in 1..Len(lastFrame.headers) : lastFrame.headers[i] = <<"CONTENT-LENGTH", "99">>
        /\ \E i \in 1..Len(lastFrame.headers) : lastFrame.headers[i][1] = "Transfer-Encoding"
        /\ lastFrame.body = "cG9uZw=="
        /\ dispatch[d].response.ended
        /\ dispatch[d].response.body = << <<"p", "o", "n", "g">> >>
        /\ HeaderValues(dispatch[d].response, "content-length") = {"4"}

(***************************************************************************)
(* C14.  Every response emitted for a forwarded request, buffered or       *)
(* streamed, whatever the order of Start and Chunk frames, carries an      *)
(* x-forwarded-for header whose value is the peer's remote address.        *)
(***************************************************************************)
C14_ForwardedForIsPeerAddress ==
    \A d \in DispatchIds : (Installed(d) /\ dispatch[d].response.headersSent) =>
        HeaderValues(dispatch[d].response, "x-forwarded-for") =
            {ipAddress(dispatch[d].hostname)}

(***************************************************************************)
(* Vocabulary of the inspector's properties.                               *)
(***************************************************************************)
\* The inspector call has passed the Host header checks.
Answering == inspect.pc \in {"done", "replaying"} /\ inspect.hostname # ""

\* The password stored for the hostname the call resolved; <<>> when none.
StoredFor(call) ==
    IF call.hostname \in DOMAIN credentials THEN credentials[call.hostname] ELSE <<>>

\* The token the request of the call presents.
PresentedBy(call) ==
    resolveRequestPassword(call.req,
        IF call.req.method = "POST"
        THEN [defined |-> TRUE, value |-> formDataFromRequest(call.req)]
        ELSE UndefinedForm)

\* The token is missing (or empty) or differs from the stored password.
TokenRefused(call) ==
    \/ ~PresentedBy(call).defined
    \/ PresentedBy(call).value = <<>>
    \/ PresentedBy(call).value # StoredFor(call)

(***************************************************************************)
(* C15.  The inspector lists, prunes and replays only for a request whose  *)
(* token equals the password stored for the resolved hostname: without a   *)
(* stored password the answer is 404, with a missing or different token it *)
(* is 401, and the step that gives such an answer lists no row, sends no   *)
(* frame, inserts no row and deletes no row of the table other than those  *)
(* its sweep of rows older than 14 days takes.                             *)
(***************************************************************************)
C15_GateBeforeActions ==
    /\ [](Answering =>
            /\ StoredFor(inspect) = <<>> => inspect.status = 404
            /\ (StoredFor(inspect) # <<>> /\ TokenRefused(inspect)) => inspect.status = 401
            /\ inspect.status \in {401, 404} => (inspect.did = {} /\ inspect.listed = <<>>)
            /\ inspect.did # {} => (StoredFor(inspect) # <<>> /\ ~TokenRefused(inspect)))
    /\ [][(inspect' # inspect /\ inspect'.status \in {401, 404}) =>
            /\ sent' = sent
            /\ lastLogId' = lastLogId
            /\ requestLogs' = pruneRequestLogsOlderThanDays(requestLogs, now, 14)]_vars

\* A prune of a.example asked for with the password of b.example was refused
\* with 401 and the rows of a.example are still there; before it, a request
\* for c.example got 404.
C15_Witness ==
    /\ inspect.pc = "done" /\ inspect.status = 401
    /\ inspect.hostname = "a.example"
    /\ inspect.req.method = "POST" /\ inspect.req.body.form.action = "prune"
    /\ inspect.req.body.form.token = Some(OtherSecret)
    /\ \E i \in 1..Len(requestLogs) : requestLogs[i].hostname = "a.example"

(***************************************************************************)
(* C16.  The token the gate compares is the first one present in the       *)
(* order: form field token (POST only), query string token, Authorization  *)
(* Bearer, Authorization Basic.  So a request is let in exactly when that  *)
(* token equals the stored password, whatever the later sources carry, and *)
(* a token in the body of a GET request is never looked at.                *)
(***************************************************************************)
FirstPresentToken(req) ==
    LET formToken == IF req.method = "POST" /\ req.body.kind = "buffer"
                     THEN req.body.form.token ELSE Undefined
    IN IF formToken.defined THEN formToken
       ELSE IF req.query.defined THEN req.query
       ELSE extractTokenFromAuthorization(req.authorization)

C16_TokenPrecedence ==
    (inspect.pc = "done" /\ StoredFor(inspect) # <<>>) =>
        LET t == FirstPresentToken(inspect.req)
        IN inspect.status =
              IF t.defined /\ t.value # <<>> /\ t.value = StoredFor(inspect)
              THEN 200 ELSE 401

\* A POST whose form carries the stored password was let in although its
\* query string and its Authorization header carry a wrong token.
C16_Witness ==
    /\ inspect.pc = "done" /\ inspect.status = 200
    /\ inspect.req.method = "POST" /\ inspect.req.body.kind = "buffer"
    /\ inspect.req.body.form.token = Some(StoredFor(inspect))
    /\ inspect.req.query = Some(WrongToken)
    /\ inspect.req.authorization = AuthorizationHeader("bearer", WrongToken, "")

(***************************************************************************)
(* C17.  A request that presents nothing but Authorization: Basic with the *)
(* base64 of u:p, p being the password stored for its hostname, is let in: *)
(* the token taken from Basic is all of p, also when p contains ':'.       *)
(***************************************************************************)
C17_BasicPasswordWhole ==
    (/\ inspect.pc = "done" /\ StoredFor(inspect) # <<>>
     /\ ~FirstPresentToken([inspect.req EXCEPT !.authorization = Undefined]).defined
     /\ inspect.req.authorization.defined
     /\ toLowerCase(inspect.req.authorization.value.scheme) = "basic"
     /\ b64decode(inspect.req.authorization.value.b64) = <<"u", ":">> \o StoredFor(inspect)) =>
        inspect.status = 200

\* The call asked for a replay and passed the gate.
ReplayIssued(call) ==
    /\ call.pc \in {"replaying", "done"}
    /\ call.req.method = "POST"
    /\ call.req.body.kind = "buffer"
    /\ call.req.body.form.action = "replay"
    /\ call.pc = "done" => call.status = 200

\* The table rows holds a log with the id that text names, recorded for
\* hostname h.
LogOfHost(rows, text, h) ==
    \E i \in 1..Len(rows) :
        /\ toString(rows[i].id) = text
        /\ rows[i].hostname = h

NotFoundFlash == FlashError(<<"Request log not found for this host.">>)

(***************************************************************************)
(* C18.  A replay asked for by hostname h whose logId names no row, or a   *)
(* row of another hostname, is answered at once with the error 'Request    *)
(* log not found for this host.' ('Invalid log id.' when logId is no       *)
(* number): the step sends no frame to any peer and inserts no row, and    *)
(* nothing is left waiting that could do so later.                         *)
(***************************************************************************)
C18_ReplayNotFound ==
    [][(/\ inspectCount' # inspectCount
        /\ ReplayIssued(inspect')
        /\ ~LogOfHost(requestLogs', inspect'.req.body.form.logId, inspect'.hostname)) =>
          /\ inspect'.pc = "done"
          /\ inspect'.flash = IF NumberIsFinite(inspect'.req.body.form.logId)
                              THEN NotFoundFlash
                              ELSE FlashError(<<"Invalid log id.">>)
          /\ "replay" \notin inspect'.did
          /\ ~inspect'.replay.listening
          /\ sent' = sent
          /\ lastLogId' = lastLogId
          /\ requestLogs' = pruneRequestLogsOlderThanDays(requestLogs, now, 14)]_vars

\* a.example, with its own password, asked for a replay of log 3, which is a
\* log of b.example: the answer is the error, log 3 is still there and no
\* peer was sent a frame.
C18_Witness ==
    /\ inspect.pc = "done" /\ inspect.hostname = "a.example"
    /\ ReplayIssued(inspect)
    /\ inspect.req.body.form.logId = "3"
    /\ LogOfHost(requestLogs, "3", "b.example")
    /\ inspect.flash = NotFoundFlash
    /\ \A h \in Hosts : sent[h] = {}

\* This step hands a waiting replay the forwardedResponse with its id.
ReplayAnswered ==
    /\ inspect.pc = "replaying"
    /\ lastFrame' # lastFrame
    /\ lastFrame'.type = "forwardedResponse"
    /\ lastFrame'.requestId = inspect.replay.requestId

\* The log a call asked to replay, as the table held it when the replay
\* began.
ReplayedLog(call) == call.replay.log[1]

\* The step appends one row to request_logs, which records the replayed
\* exchange and the status the peer answered with, and changes no other row.
ReplayRecorded ==
    LET log == ReplayedLog(inspect)
        row == requestLogs'[Len(requestLogs')]
    IN /\ Len(requestLogs') = Len(requestLogs) + 1
       /\ SubSeq(requestLogs', 1, Len(requestLogs)) = requestLogs
       /\ row.id \notin {requestLogs[i].id : i \in 1..Len(requestLogs)}
       /\ row.hostname = log.hostname
       /\ row.method = log.method
       /\ row.path = log.path
       /\ row.requestHeaders = log.requestHeaders
       /\ row.requestBody = log.requestBody
       /\ row.responseStatus = lastFrame'.statusCode
       /\ inspect'.pc = "done"
       /\ ~inspect'.replay.listening

(***************************************************************************)
(* C19.  When the peer answers a waiting replay with a forwardedResponse   *)
(* carrying the replay's requestId, exactly one row is added to            *)
(* request_logs, with the stored method, path, headers and body and the    *)
(* peer's status code, and the result is the success text                  *)
(* 'Replayed <method> <path> (status <statusCode>).', full stop included.  *)
(***************************************************************************)
C19_ReplayRecordsOutcome ==
    [][ReplayAnswered =>
          /\ ReplayRecorded
          /\ inspect'.flash =
                FlashSuccess(<<"Replayed ", ReplayedLog(inspect).method, " ",
                               ReplayedLog(inspect).path, " (status ",
                               StatusText(lastFrame'.statusCode), ").">>)]_vars

\* The statement with the text as the specification quotes it, without the
\* full stop.
C19_SummaryWithoutFullStop ==
    [][ReplayAnswered =>
          /\ ReplayRecorded
          /\ inspect'.flash =
                FlashSuccess(<<"Replayed ", ReplayedLog(inspect).method, " ",
                               ReplayedLog(inspect).path, " (status ",
                               StatusText(lastFrame'.statusCode), ")">>)]_vars

\* Log 2 (POST /x, stored with status 200) was replayed and the peer
\* answered 201: row 4 records POST /x with status 201.
C19_Witness ==
    /\ inspect.pc = "done" /\ inspect.flash.kind = "success"
    /\ inspect.req.body.form.logId = "2"
    /\ lastFrame.type = "forwardedResponse" /\ lastFrame.statusCode = 201
    /\ \E i \in 1..Len(requestLogs) :
          /\ requestLogs[i].id = 4
          /\ requestLogs[i].method = "POST" /\ requestLogs[i].path = "/x"
          /\ requestLogs[i].requestBody = "e30="
          /\ requestLogs[i].responseStatus = 201

\* The step changes the table and neither inserts a row nor moves the clock:
\* it is a sweep that deleted something.
Swept == requestLogs' # requestLogs /\ lastLogId' = lastLogId /\ now' = now

\* The row was created more than days days before time t (created_at has the
\* precision of a second).
OlderThanDays(row, t, days) == row.createdAt * 1000 < t - days * MS_PER_DAY

(***************************************************************************)
(* C20.  The sweep of old rows is idempotent: right after a sweep, with    *)
(* the clock and the table as the sweep left them, another                 *)
(* pruneRequestLogsOlderThanDays(14) deletes no row.  A sweep deletes only *)
(* rows created more than 14 days ago and keeps the other rows, in their   *)
(* order.                                                                  *)
(***************************************************************************)
C20_PruneIdempotent ==
    [][Swept =>
          /\ pruneRequestLogsOlderThanDays(requestLogs', now', 14) = requestLogs'
          /\ requestLogs' =
                SelectSeq(requestLogs,
                          LAMBDA r : \E i \in 1..Len(requestLogs') : requestLogs'[i] = r)
          /\ \A i \in 1..Len(requestLogs) :
                (\A j \in 1..Len(requestLogs') : requestLogs'[j] # requestLogs[i]) =>
                    OlderThanDays(requestLogs[i], now, 14)]_vars

\* A sweep took row 1, a second older than 14 days, and left row 2, a second
\* younger, and the rows inserted since: sweeping again changes nothing.
C20_Witness ==
    /\ \A i \in 1..Len(requestLogs) : requestLogs[i].id # 1
    /\ \E i \in 1..Len(requestLogs) : requestLogs[i].id = 2
    /\ \E i \in 1..Len(requestLogs) : requestLogs[i].id = 4
    /\ now = ClockStart
    /\ pruneRequestLogsOlderThanDays(requestLogs, now, 14) = requestLogs

(***************************************************************************)
(* Properties of the forwarding engine, continued.                         *)
(***************************************************************************)
\* No forwardedResponseStreamStart was handled for the dispatch in state s.
NoStartYet(s) == s.streamingHeaders = <<>> /\ s.streamingStatusCode = 0

(***************************************************************************)
(* C21.  A chunk frame that reaches a stream-mode dispatch before any      *)
(* Start is dropped: the client response and the RequestLogs issued stay   *)
(* as they were.                                                           *)
(***************************************************************************)
C21_ChunkBeforeStartDropped ==
    \A d \in DispatchIds : (Streamed(d) /\ Subscribed(d) /\ NoStartYet(dispatch[d])) =>
        LET h == dispatch[d].hostname
        IN peerOpen[h] =>
             \A f \in FramesNow(h) :
                 (f.type = "forwardedResponseStreamChunk" /\ f.requestId = d) =>
                     LET after == DeliverEffect(h, f)
                     IN /\ after[d].response = dispatch[d].response
                        /\ after[d].inserts = dispatch[d].inserts

(***************************************************************************)
(* C22.  A second Start frame for a stream-mode dispatch is dropped: the   *)
(* status and the headers the client was sent stay, and the handler keeps  *)
(* listening, so that the chunks that follow reach the client.             *)
(***************************************************************************)
C22_SecondStartDropped ==
    \A d \in DispatchIds :
        (Streamed(d) /\ Subscribed(d) /\ ~NoStartYet(dispatch[d])) =>
            LET h == dispatch[d].hostname
            IN peerOpen[h] =>
                 \A f \in FramesNow(h) :
                     (f.type = "forwardedResponseStreamStart" /\ f.requestId = d) =>
                         LET after == DeliverEffect(h, f)
                         IN /\ after[d].response.wireStatus = dispatch[d].response.wireStatus
                            /\ after[d].response.headers = dispatch[d].response.headers
                            /\ StillSubscribed(d, h, after)

(***************************************************************************)
(* C23.  Once the client of a buffered dispatch has closed its connection, *)
(* the dispatch's handler is no longer a listener of the peer, and no      *)
(* cancelForwardedRequest was sent for it.                                 *)
(***************************************************************************)
C23_BufferedCloseUnsubscribes ==
    \A d \in DispatchIds : (Buffered(d) /\ dispatch[d].clientClosed) =>
        /\ ~Subscribed(d)
        /\ \A h \in Hosts : Outbound("cancelForwardedRequest", d, "") \notin sent[h]

(***************************************************************************)
(* C24.  The handler of a dispatch is subscribed on the peer before the    *)
(* forwardedRequest frame is handed to it: whenever the frame of a         *)
(* dispatch has been sent, its handler is a listener of the peer or has    *)
(* been one and was removed.                                               *)
(***************************************************************************)
C24_SubscribedBeforeSend ==
    \A d \in DispatchIds :
        (/\ dispatch[d].pc \in {"sent", "installed"}
         /\ \E m \in sent[dispatch[d].hostname] :
               m.type = "forwardedRequest" /\ m.requestId = d) =>
            (d \in listeners[dispatch[d].hostname] \/ dispatch[d].listenerRemoved)

\* The handler of the dispatch in state s has no branch for frame f: its type
\* is none of the protocol, or is a stream frame while the dispatch is
\* buffered.
NotHandled(s, f) ==
    /\ f.type # "malformed"
    /\ f.type # "forwardedResponse"
    /\ s.shouldStream => f.type \notin ResponseFrameTypes

(***************************************************************************)
(* C25.  A frame of a type the handler has no branch for is dropped: when  *)
(* it carries the requestId of a listening dispatch, that dispatch and     *)
(* every other one stay as they were and stay subscribed, and a            *)
(* forwardedResponse that follows is delivered to the client as if the     *)
(* frame had never come.                                                   *)
(***************************************************************************)
C25_UnknownTypeDropped ==
    \A d \in DispatchIds : (Installed(d) /\ Subscribed(d)) =>
        LET h == dispatch[d].hostname
            s == dispatch[d]
        IN peerOpen[h] =>
             \A f \in FramesNow(h) : (f.requestId = d /\ NotHandled(s, f)) =>
                 LET after == DeliverEffect(h, f)
                 IN /\ after = dispatch
                    /\ \A e \in listeners[h] : StillSubscribed(e, h, after)
                    /\ \A g \in FramesNow(h) :
                          (g.type = "forwardedResponse" /\ g.requestId = d
                           /\ ~s.response.headersSent) =>
                              LET t == forwardedResponseHandler(after[d], g, ipAddress(h))
                              IN /\ t.response.ended
                                 /\ t.response.wireStatus = g.statusCode
                                 /\ t.response.body = <<b64decode(g.body)>>

\* A buffered and a stream-mode dispatch listen on the same connected peer,
\* neither answered yet: the peer may send each a frame it has no branch for
\* (a pong; for the buffered one also a Start or a chunk).
C25_Witness ==
    \E d1, d2 \in DispatchIds :
        /\ Buffered(d1) /\ Streamed(d2)
        /\ Subscribed(d1) /\ Subscribed(d2)
        /\ dispatch[d1].hostname = dispatch[d2].hostname
        /\ peerOpen[dispatch[d1].hostname]
        /\ dispatch[d1].response = NewResponse /\ dispatch[d2].response = NewResponse
        /\ \E f \in FramesNow(dispatch[d1].hostname) :
              f.type = "pong" /\ f.requestId = d1 /\ NotHandled(dispatch[d1], f)
        /\ \E f \in FramesNow(dispatch[d1].hostname) :
              f.type = "forwardedResponseStreamStart" /\ f.requestId = d1
              /\ NotHandled(dispatch[d1], f)

\* The forwardedRequest frames handed to the peer for dispatch d.
RequestFramesOf(d) ==
    {m \in sent[dispatch[d].hostname] : m.type = "forwardedRequest" /\ m.requestId = d}

(***************************************************************************)
(* C26.  A dispatch is in stream mode exactly when the Accept header of    *)
(* its request (a text or an array of texts) contains 'text/event-stream'  *)
(* in some letter case, and in buffer mode otherwise.  Everything else     *)
(* follows that choice: the responseMode of the forwardedRequest frame,    *)
(* the deadline timer (set for buffer mode only), the client-close watcher *)
(* (set for stream mode only), and the frames the handler acts on (Start   *)
(* and chunk frames in stream mode only, forwardedResponse in both).       *)
(***************************************************************************)
C26_ModeFollowsAccept ==
    \A d \in DispatchIds : Installed(d) =>
        LET s == dispatch[d]
            h == s.hostname
            stream == s.accept \in StreamAccepts
        IN /\ s.accept \in AcceptCases
           /\ s.shouldStream = stream
           /\ RequestFramesOf(d) =
                 {Outbound("forwardedRequest", d, IF stream THEN "stream" ELSE "buffer")}
           /\ (s.timer # "none") = ~stream
           /\ s.closeWatcher = stream
           /\ (Outbound("cancelForwardedRequest", d, "") \in sent[h]) => stream
           /\ (Subscribed(d) /\ peerOpen[h]) =>
                 \A f \in FramesNow(h) : f.requestId = d =>
                     LET t == DeliverEffect(h, f)[d]
                     IN /\ f.type = "forwardedResponse" => t # s
                        /\ f.type = "forwardedResponseStreamStart" => (t # s) = stream
                        /\ (f.type = "forwardedResponseStreamChunk" /\ f.isFinal) =>
                              (t # s) = stream
                        /\ (f.type = "forwardedResponseStreamChunk" /\ ~stream) => t = s

\* A request whose Accept header is the array ['*/*', 'Text/Event-Stream'] is
\* being streamed: its Start was applied and its client has not closed.  (In
\* other behaviours the header is 'TEXT/EVENT-STREAM', or holds the type in
\* pieces, and so on.)
C26_Witness ==
    \E d \in DispatchIds :
        /\ Installed(d) /\ Subscribed(d)
        /\ dispatch[d].accept = AcceptArray(<<AnyText, EventStreamMixed>>)
        /\ dispatch[d].shouldStream
        /\ dispatch[d].response.headersSent /\ ~dispatch[d].response.ended
        /\ dispatch[d].closeWatcher /\ dispatch[d].timer = "none"

(***************************************************************************)
(* C27.  The deadline timer of a buffered dispatch is set for 10 minutes,  *)
(* that is 600000 ms.                                                      *)
(***************************************************************************)
C27_DeadlineIsTenMinutes ==
    \A d \in DispatchIds : Buffered(d) =>
        /\ dispatch[d].timer # "none"
        /\ dispatch[d].delay = 10 * 60 * 1000

\* Header map hs holds no name the sanitizer removes, apart from the
\* content-length the gateway sets itself from a body of bodyLength bytes
\* (-1: no body length was given and none is set).
Sanitized(hs, bodyLength) ==
    /\ \A i \in 1..Len(hs) : toLowerCase(hs[i][1]) # "transfer-encoding"
    /\ {hs[i] : i \in {j \in 1..Len(hs) : toLowerCase(hs[j][1]) = "content-length"}} =
          IF bodyLength >= 0 THEN {<<"content-length", toString(bodyLength)>>} ELSE {}

\* The RequestLog issued for a dispatch, with streamedBody as the body that
\* stands for a streamed response.
LogRecordsResponse(streamedBody) ==
    \A d \in DispatchIds : (Installed(d) /\ dispatch[d].inserts # <<>>) =>
        LET s == dispatch[d]
            log == s.inserts[1]
            ip == ipAddress(s.hostname)
        IN /\ Len(s.inserts) = 1
           /\ log.hostname = s.hostname
           /\ log.responseStatus = s.response.wireStatus
           /\ s.response.headers # <<>> =>
                 \E i \in 1..Len(log.responseHeaders) :
                     log.responseHeaders[i] = <<"x-forwarded-for", ip>>
           /\ \A j \in 1..Len(s.response.headers) :
                 \E i \in 1..Len(log.responseHeaders) :
                     /\ capitalize(log.responseHeaders[i][1]) = s.response.headers[j][1]
                     /\ log.responseHeaders[i][2] = s.response.headers[j][2]
           /\ IF s.streamingCompleted
              THEN /\ Sanitized(log.responseHeaders, -1)
                   /\ log.responseHeaders = s.streamingHeaders
                   /\ log.responseBody = streamedBody
              ELSE /\ Len(s.response.body) = 1
                   /\ Sanitized(log.responseHeaders, Len(s.response.body[1]))
                   /\ b64decode(log.responseBody) = s.response.body[1]
                   /\ lastFrame.requestId = d =>
                         /\ lastFrame.type = "forwardedResponse"
                         /\ log.responseBody = lastFrame.body
                         /\ log.responseStatus = lastFrame.statusCode
                         /\ \A k \in 1..Len(lastFrame.headers) :
                               toLowerCase(lastFrame.headers[k][1]) \notin forbiddenHeaders =>
                                   \E i \in 1..Len(log.responseHeaders) :
                                       log.responseHeaders[i] = lastFrame.headers[k]

ReplayFramesSent ==
    UNION {{m \in sent[h] : m.type = "forwardedRequest" /\ m.requestId \notin DispatchIds} :
           h \in Hosts}

(***************************************************************************)
(* C29.  The forwardedRequest frame a replay sends carries responseMode    *)
(* 'buffer'.                                                               *)
(***************************************************************************)
C29_ReplayForcesBuffer ==
    \A m \in ReplayFramesSent : m.responseMode = "buffer"

\* The frame this step delivers to a replay is the forwardedResponse with
\* the replay's id.
MatchesReplay(f, r) == f.type = "forwardedResponse" /\ f.requestId = r.requestId

(***************************************************************************)
(* C30.  A replay settles once and releases what it holds on every path.   *)
(* While it waits, its handler listens and its timer runs; once the call   *)
(* has answered, the handler is removed and the timer is not running, and  *)
(* no frame and no timer changes the answer or the table any more.  The    *)
(* deadline and a failed send end the replay with an error and without a   *)
(* new row; a frame that is malformed, carries another id or is no         *)
(* forwardedResponse leaves a waiting replay as it is.                     *)
(***************************************************************************)
C30_ReplaySettlesOnce ==
    /\ [](inspect.pc = "replaying" =>
            inspect.replay.listening /\ inspect.replay.timer = "armed")
    /\ [](inspect.pc = "done" =>
            ~inspect.replay.listening /\ inspect.replay.timer # "armed")
    /\ [][/\ (inspect.pc = "done" /\ inspectCount' = inspectCount) =>
               (inspect' = inspect /\ requestLogs' = requestLogs /\ lastLogId' = lastLogId)
          /\ (inspect.pc = "replaying" /\ lastFrame' # lastFrame
               /\ ~MatchesReplay(lastFrame', inspect.replay)) =>
               (inspect' = inspect /\ requestLogs' = requestLogs /\ lastLogId' = lastLogId)
          /\ (inspect.pc = "replaying" /\ lastFrame' # lastFrame
               /\ MatchesReplay(lastFrame', inspect.replay)) =>
               (/\ inspect'.pc = "done" /\ inspect'.flash.kind = "success"
                /\ lastLogId' = lastLogId + 1)
          /\ (inspect.pc = "replaying" /\ inspect'.pc = "done" /\ lastFrame' = lastFrame) =>
               (/\ inspect'.replay.timer = "fired"
                /\ inspect'.flash =
                      FlashError(<<"Timed out while waiting for replay response.">>)
                /\ requestLogs' = requestLogs /\ lastLogId' = lastLogId)
          /\ (inspectCount' # inspectCount /\ inspect'.pc = "done"
               /\ inspect'.replay.requestId # 0) =>
               (/\ inspect'.flash.kind = "error"
                /\ inspect'.replay.timer = "cleared"
                /\ lastLogId' = lastLogId
                /\ Len(requestLogs') <= Len(requestLogs))]_vars

\* A replay got a malformed frame, stayed waiting, and was then ended by its
\* deadline: the call answered with the error, the handler is removed and
\* no row was added.
C30_Witness ==
    /\ inspect.pc = "done"
    /\ inspect.replay.requestId # 0
    /\ inspect.replay.timer = "fired" /\ ~inspect.replay.listening
    /\ inspect.flash = FlashError(<<"Timed out while waiting for replay response.">>)
    /\ lastFrame = MalformedFrame
    /\ lastLogId = Len(StoredLogs)

\* A cancelForwardedRequest about dispatch d has been handed to the peer.
CancelSent(d) ==
    /\ dispatch[d].pc = "installed"
    /\ \E m \in sent[dispatch[d].hostname] :
          m.type = "cancelForwardedRequest" /\ m.requestId = d

(***************************************************************************)
(* C31.  A cancelForwardedRequest is sent for a dispatch only if the       *)
(* client closed before the dispatch had delivered a complete response: a  *)
(* dispatch about which a cancel was sent has a closed client and a        *)
(* response that was never completed (the close removes the handler, so    *)
(* the response cannot complete afterwards).                               *)
(***************************************************************************)
C31_CancelOnlyBeforeComplete ==
    \A d \in DispatchIds :
        CancelSent(d) =>
            (dispatch[d].clientClosed /\ ~dispatch[d].response.ended)

(***************************************************************************)
(* C32.  Whenever the listener of a dispatch has been removed from the     *)
(* peer while the client is still connected, the client's response has     *)
(* been completed: no dispatch is unsubscribed with its response open.     *)
(***************************************************************************)
C32_UnsubscribedMeansCompleted ==
    \A d \in DispatchIds :
        (/\ Installed(d)
         /\ dispatch[d].listenerRemoved /\ ~Subscribed(d)
         /\ ~dispatch[d].clientClosed) =>
            dispatch[d].response.ended

\* This step is a call of requestLogsDashboard that answers with a refusal.
Rejected ==
    /\ inspectCount' # inspectCount
    /\ inspect'.pc = "done"
    /\ inspect'.status \in {400, 401, 404}

(***************************************************************************)
(* C33.  An inspector request that is rejected (400, 404 for a hostname    *)
(* without a password, 401 for a missing or wrong token) leaves the table  *)
(* of request logs unchanged: no row is inserted or deleted.               *)
(***************************************************************************)
C33_RejectedLeavesLogs ==
    [][Rejected => (requestLogs' = requestLogs /\ lastLogId' = lastLogId)]_vars

\* The rows of the table recorded for hostname h, and those recorded for
\* other hostnames, in the table's order.
OwnRows(rows, h) == SelectSeq(rows, LAMBDA r : r.hostname = h)
OtherRows(rows, h) == SelectSeq(rows, LAMBDA r : r.hostname # h)

\* After this step the inspector's call is one that was let in for
\* hostname h: it waits for its replay or has rendered the page.
LetInFor(h) ==
    /\ inspect'.hostname = h
    /\ inspect'.pc \in {"replaying", "done"}
    /\ inspect'.pc = "done" => inspect'.status = 200

\* What a step of a call let in for h does to h alone: the rows it lists
\* and the rows it adds are rows of h, a prune leaves no row of h, and the
\* only frames it sends are forwardedRequest frames to the connection
\* registered for h; the peers of the other hostnames get no frame and keep
\* their listeners.
OwnHostOnly(h) ==
    /\ \A i \in 1..Len(inspect'.listed) : inspect'.listed[i].hostname = h
    /\ \A i \in 1..Len(requestLogs') :
          requestLogs'[i].id > lastLogId => requestLogs'[i].hostname = h
    /\ (inspectCount' # inspectCount /\ "prune" \in inspect'.did) =>
          (/\ OwnRows(requestLogs', h) = <<>>
           /\ lastLogId' = lastLogId)
    /\ \A g \in Hosts \ {h} :
          /\ sent'[g] = sent[g]
          /\ listeners'[g] = listeners[g]
          /\ peerOpen'[g] = peerOpen[g]
    /\ h \in Hosts =>
          \A m \in sent'[h] \ sent[h] :
              /\ m.type = "forwardedRequest"
              /\ findConnectionByHostname(h)
              /\ "replay" \in inspect'.did

(***************************************************************************)
(* C34, as stated.  A request let in for hostname h acts only on h: the    *)
(* rows it lists are rows of h, its prune deletes rows of h only, its      *)
(* replay sends its frame to the peer bound to h and writes its row under  *)
(* h, and the rows and peers of every other hostname are unaffected.       *)
(***************************************************************************)
C34_OtherHostsUntouched ==
    [][\A h \in InspectHosts :
          LetInFor(h) =>
              /\ OwnHostOnly(h)
              /\ OtherRows(requestLogs', h) = OtherRows(requestLogs, h)]_vars

(***************************************************************************)
(* C34, amended.  A request let in for hostname h acts only on h, but for  *)
(* the sweep every inspector request starts with: of the rows of other     *)
(* hostnames, exactly those older than 14 days are deleted, and nothing    *)
(* else about another hostname changes.                                    *)
(***************************************************************************)
C34_ActsOnOwnHostOnly ==
    [][\A h \in InspectHosts :
          LetInFor(h) =>
              /\ OwnHostOnly(h)
              /\ OtherRows(requestLogs', h) =
                    IF inspectCount' # inspectCount
                    THEN OtherRows(pruneRequestLogsOlderThanDays(requestLogs, now, 14), h)
                    ELSE OtherRows(requestLogs, h)]_vars

\* a.example replayed its log 2 and the answer was recorded as a row of
\* a.example; then b.example pruned: its rows are gone and the rows of
\* a.example that are younger than 14 days are all there; the peer of
\* b.example was sent nothing.
C34_Witness ==
    /\ inspect.pc = "done" /\ inspect.status = 200
    /\ inspect.hostname = "b.example" /\ "prune" \in inspect.did
    /\ OwnRows(requestLogs, "b.example") = <<>>
    /\ Len(requestLogs) = 2
    /\ requestLogs[1].id = 2 /\ requestLogs[2].id = Len(StoredLogs) + 1
    /\ \A i \in 1..2 : requestLogs[i].hostname = "a.example"
    /\ sent["b.example"] = {}
    /\ \E m \in sent["a.example"] : m.type = "forwardedRequest"

=============================================================================
